---- MODULE Spec2Model ----
(***************************************************************************)
(* State reconciliation engine (cloud sync) of the launcher, together with *)
(* the persisted state it reads and writes: the sync metadata file, the    *)
(* instance database, the per-instance mods/packs state files and the      *)
(* remote sync endpoint.                                                   *)
(***************************************************************************)
EXTENDS Integers, Sequences, FiniteSets, TLC

\* ---------------------------------------------------------------- bounds
\* Environment events (clock ticks, uploads of other devices, local edits) per run.
MaxEvents == 2
\* syncCloudNow calls per run.
MaxCalls == 2
\* Mods operations (setModEnabled, refreshModsForInstance) and provider changes per run.
MaxOps == 3

\* ------------------------------------------------------- null encodings
\* JavaScript null for a string, a number and a hash.
NullStr == "<null>"
NullNum == 0 - 1
NoHash == << >>
\* The sync-state file before its first write.
NoMetaFile == [exists |-> FALSE, state |-> [lastSyncedAt |-> 0 - 1, lastStatus |-> "idle", lastError |-> "<null>",
                                            lastRemoteRevision |-> 0 - 1, lastSnapshotHash |-> << >>]]

\* ------------------------------------------------------- JSON values
\* A JSON scalar: a number or a string (typeof v === "number" / "string"), null,
\* or a boolean (which keeps its truth value as 1 or 0).
Num(n) == [isNum |-> TRUE, n |-> n, s |-> ""]
Str(s) == [isNum |-> FALSE, n |-> 0, s |-> s]
JsonNull == [isNum |-> FALSE, n |-> 0, s |-> "<null>"]
Bool(b) == [isNum |-> FALSE, n |-> IF b THEN 1 ELSE 0, s |-> "<boolean>"]

\* A JSON object is a sequence of [k, v] members in insertion order.
HasKey(obj, key) == \E i \in 1..Len(obj) : obj[i].k = key
GetKey(obj, key) == obj[CHOOSE i \in 1..Len(obj) : obj[i].k = key /\ \A j \in 1..(i-1) : obj[j].k # key].v
Keys(obj) == {obj[i].k : i \in 1..Len(obj)}

MaxOf(S) == CHOOSE x \in S : \A y \in S : y <= x

\* Number(s) of a string: the empty string is 0, a decimal numeral is its value,
\* any other text is NaN. The numerals are those the settings blobs carry.
Numerals == ("" :> 0) @@ ("2" :> 2) @@ ("12" :> 12)
NumberOfString(s) ==
  IF s \in DOMAIN Numerals THEN [finite |-> TRUE, n |-> Numerals[s]]
  ELSE [finite |-> FALSE, n |-> 0]

\* numberOr(value, fallback) applied to a JSON scalar that is present:
\* Number(value) when it is finite, else the fallback. Number(null) is 0,
\* Number(true) is 1 and Number(false) is 0.
numberOr(value, fallback) ==
  IF value.isNum THEN value.n
  ELSE IF value = JsonNull THEN 0
  ELSE IF value \in {Bool(TRUE), Bool(FALSE)} THEN value.n
  ELSE IF NumberOfString(value.s).finite THEN NumberOfString(value.s).n
  ELSE fallback

\* ------------------------------------------------------- catalog
CATALOG == <<
  [id |-> "fabric-api", name |-> "Fabric API", required |-> TRUE, projectId |-> "P7dR8mSH"],
  [id |-> "sodium", name |-> "Sodium", required |-> FALSE, projectId |-> "AANobbMI"],
  [id |-> "lithium", name |-> "Lithium", required |-> FALSE, projectId |-> "gvQqBUqZ"],
  [id |-> "mod-menu", name |-> "Mod Menu", required |-> FALSE, projectId |-> "mOgUt4GM"],
  [id |-> "iris", name |-> "Iris Shaders", required |-> FALSE, projectId |-> "YL57xq9U"],
  [id |-> "emf", name |-> "Entity Model Features", required |-> TRUE, projectId |-> "4I1XuqiY"],
  [id |-> "etf", name |-> "Entity Texture Features", required |-> TRUE, projectId |-> "BVzZfTc1"] >>

CatalogIds == {CATALOG[i].id : i \in 1..Len(CATALOG)}

CatalogEntry(id) == CATALOG[CHOOSE i \in 1..Len(CATALOG) : CATALOG[i].id = id]

\* defaultState(): every entry enabled exactly when it is required.
defaultState == [enabled |-> [id \in CatalogIds |-> CatalogEntry(id).required],
                 resolved |-> << >>]

\* The packs state shape mirrors the mods state; its default has nothing enabled.
defaultPacksState == [enabled |-> << >>, resolved |-> << >>]

\* ------------------------------------------------------- sync metadata
DEFAULT_STATE == [lastSyncedAt |-> NullNum, lastStatus |-> "idle", lastError |-> NullStr,
                  lastRemoteRevision |-> NullNum, lastSnapshotHash |-> NoHash]

\* Number(x) of a stored number-or-null: Number(null) is 0, which is finite.
NumberOfStoredKeepsNull(x) == x

NumberOfStored(x) == IF x = NullNum THEN 0 ELSE x

\* readLocalSyncState(): the file (or DEFAULT_STATE) passed through the field coercions.
readLocalSyncState(file) ==
  LET state == IF file.exists THEN file.state ELSE DEFAULT_STATE
  IN [lastSyncedAt |-> NumberOfStored(state.lastSyncedAt),
      lastStatus |-> IF state.lastStatus \in {"up-to-date", "pushed", "pulled", "conflict", "error"}
                     THEN state.lastStatus ELSE "idle",
      lastError |-> IF state.lastError # NullStr /\ state.lastError # "" THEN state.lastError ELSE NullStr,
      lastRemoteRevision |-> NumberOfStored(state.lastRemoteRevision),
      lastSnapshotHash |-> state.lastSnapshotHash]

\* ------------------------------------------------------- snapshots
AllowKeys == << "theme", "blur", "accentColor", "surfaceAlpha", "cornerRadius",
                "borderThickness", "pixelFont", "updateChannel", "showSnapshots",
                "autoUpdateMods", "defaultMemoryMb", "jvmArgs", "settingsUpdatedAt",
                "cloudSyncEnabled", "cloudSyncAuto", "cloudSyncConflictPolicy" >>

AllowSet == {AllowKeys[i] : i \in 1..Len(AllowKeys)}

sanitizeSettingsIdentity(settings) == settings

\* sanitizeSettings: walk the allow-list in order, copy the keys the blob owns.
sanitizeSettings(settings) ==
  LET owned == Keys(settings)
      present == SelectSeq(AllowKeys, LAMBDA key : key \in owned)
  IN [i \in 1..Len(present) |-> [k |-> present[i], v |-> GetKey(settings, present[i])]]

\* pickSyncedInstances: drop the do-not-sync instances, force syncEnabled on the rest.
pickSyncedInstances(instances) ==
  LET kept == SelectSeq(instances, LAMBDA inst : inst.syncEnabled # FALSE)
  IN [i \in 1..Len(kept) |-> [kept[i] EXCEPT !.syncEnabled = TRUE]]

\* fileMtimeMs of a state file: 0 when the file does not exist.
fileMtimeMs(files, id) == IF files[id].exists THEN files[id].mtime ELSE 0

loadModsState(files, id) == IF files[id].exists THEN files[id].state ELSE defaultState

loadPacksState(files, id) == IF files[id].exists THEN files[id].state ELSE defaultPacksState

\* hashSnapshot: sha256 of JSON.stringify(snapshot); the digest is modelled by the
\* serialisation itself, the members in the order JSON.stringify writes them.
hashSnapshot(snapshot) ==
  << snapshot.settings, snapshot.activeInstanceId, snapshot.instances,
     snapshot.modsStateByInstance, snapshot.packsStateByInstance,
     snapshot.settingsUpdatedAt, snapshot.instancesUpdatedAt, snapshot.capturedAt >>

\* collectLocalSnapshot(settings) read against the instance db, the state files and the clock.
collectLocalSnapshot(settings, localDb, mods, packs, clock) ==
  LET syncedInstances == pickSyncedInstances(localDb.instances)
      mtimes == {fileMtimeMs(mods, syncedInstances[i].id) : i \in 1..Len(syncedInstances)}
                \cup {fileMtimeMs(packs, syncedInstances[i].id) : i \in 1..Len(syncedInstances)}
      settingsPatch == sanitizeSettings(settings)
  IN [settings |-> settingsPatch,
      activeInstanceId |-> localDb.activeInstanceId,
      instances |-> syncedInstances,
      modsStateByInstance |-> [i \in 1..Len(syncedInstances) |->
          [k |-> syncedInstances[i].id, v |-> loadModsState(mods, syncedInstances[i].id)]],
      packsStateByInstance |-> [i \in 1..Len(syncedInstances) |->
          [k |-> syncedInstances[i].id, v |-> loadPacksState(packs, syncedInstances[i].id)]],
      settingsUpdatedAt |-> IF HasKey(settingsPatch, "settingsUpdatedAt")
                            THEN numberOr(GetKey(settingsPatch, "settingsUpdatedAt"), clock)
                            ELSE clock,
      instancesUpdatedAt |-> MaxOf({localDb.updatedAt} \cup mtimes),
      capturedAt |-> clock]

\* The snapshot fetchRemoteSyncState builds when the response carries no payload.
EmptySnapshot ==
  [settings |-> << >>, activeInstanceId |-> NullStr, instances |-> << >>,
   modsStateByInstance |-> << >>, packsStateByInstance |-> << >>,
   settingsUpdatedAt |-> 0, instancesUpdatedAt |-> 0, capturedAt |-> 0]

\* fetchRemoteSyncState: the GET response normalised field by field.
fetchRemoteSyncState(response) ==
  [revision |-> response.revision,
   payload |-> IF response.hasPayload THEN response.payload ELSE EmptySnapshot]

\* chooseConflictPolicy(policy, local, remote)
chooseConflictPolicyStrict(policy, local, remote) ==
  IF policy = "prefer-local" THEN "local"
  ELSE IF policy = "prefer-cloud" THEN "remote"
  ELSE IF policy = "newer-wins"
       THEN LET localEdge == MaxOf({local.settingsUpdatedAt, local.instancesUpdatedAt})
                remoteEdge == MaxOf({remote.settingsUpdatedAt, remote.instancesUpdatedAt})
            IN IF localEdge > remoteEdge THEN "local" ELSE "remote"
       ELSE "conflict"

chooseConflictPolicy(policy, local, remote) ==
  IF policy = "prefer-local" THEN "local"
  ELSE IF policy = "prefer-cloud" THEN "remote"
  ELSE IF policy = "newer-wins"
       THEN LET localEdge == MaxOf({local.settingsUpdatedAt, local.instancesUpdatedAt})
                remoteEdge == MaxOf({remote.settingsUpdatedAt, remote.instancesUpdatedAt})
            IN IF localEdge >= remoteEdge THEN "local" ELSE "remote"
       ELSE "conflict"


\* An apply that writes the packs states of the payload into the mods state files.
applyRemoteSnapshotSwapped(snapshot, localDb, mods, packs, clock) ==
  LET localUnsynced == SelectSeq(localDb.instances, LAMBDA inst : inst.syncEnabled = FALSE)
      cloudInstances == pickSyncedInstances(snapshot.instances)
      mergedInstances == localUnsynced \o cloudInstances
      mergedActive ==
        IF \E i \in 1..Len(mergedInstances) : mergedInstances[i].id = snapshot.activeInstanceId
        THEN snapshot.activeInstanceId
        ELSE IF \E i \in 1..Len(localUnsynced) : localUnsynced[i].id = localDb.activeInstanceId
             THEN localDb.activeInstanceId
             ELSE IF Len(mergedInstances) > 0 THEN mergedInstances[1].id ELSE NullStr
      cloudIds == {cloudInstances[i].id : i \in 1..Len(cloudInstances)}
      written(files, byInstance) ==
        [id \in DOMAIN files |->
           IF id \in cloudIds /\ HasKey(byInstance, id)
           THEN [exists |-> TRUE, state |-> GetKey(byInstance, id), mtime |-> clock]
           ELSE files[id]]
  IN [db |-> [activeInstanceId |-> mergedActive,
              instances |-> mergedInstances,
              updatedAt |-> snapshot.instancesUpdatedAt],
      mods |-> written(mods, snapshot.packsStateByInstance),
      packs |-> written(packs, snapshot.packsStateByInstance),
      settingsPatch |-> sanitizeSettings(snapshot.settings)]

\* applyRemoteSnapshot(snapshot): the merged instance db, the rewritten state files
\* and the settings patch handed back to the caller.
applyRemoteSnapshot(snapshot, localDb, mods, packs, clock) ==
  LET localUnsynced == SelectSeq(localDb.instances, LAMBDA inst : inst.syncEnabled = FALSE)
      cloudInstances == pickSyncedInstances(snapshot.instances)
      mergedInstances == localUnsynced \o cloudInstances
      mergedActive ==
        IF \E i \in 1..Len(mergedInstances) : mergedInstances[i].id = snapshot.activeInstanceId
        THEN snapshot.activeInstanceId
        ELSE IF \E i \in 1..Len(localUnsynced) : localUnsynced[i].id = localDb.activeInstanceId
             THEN localDb.activeInstanceId
             ELSE IF Len(mergedInstances) > 0 THEN mergedInstances[1].id ELSE NullStr
      cloudIds == {cloudInstances[i].id : i \in 1..Len(cloudInstances)}
      written(files, byInstance) ==
        [id \in DOMAIN files |->
           IF id \in cloudIds /\ HasKey(byInstance, id)
           THEN [exists |-> TRUE, state |-> GetKey(byInstance, id), mtime |-> clock]
           ELSE files[id]]
  IN [db |-> [activeInstanceId |-> mergedActive,
              instances |-> mergedInstances,
              updatedAt |-> snapshot.instancesUpdatedAt],
      mods |-> written(mods, snapshot.modsStateByInstance),
      packs |-> written(packs, snapshot.packsStateByInstance),
      settingsPatch |-> sanitizeSettings(snapshot.settings)]

\* The two change flags of syncCloudNow.
remoteChangedSinceLastSync(meta, remote) ==
  meta.lastRemoteRevision # NullNum /\ remote.revision # meta.lastRemoteRevision

localChangedSinceLastSync(meta, localHash) ==
  IF meta.lastSnapshotHash # NoHash THEN meta.lastSnapshotHash # localHash ELSE TRUE

EffectivePolicy(input) == IF input.policy = NullStr THEN "ask" ELSE input.policy

\* The test order of the two change flags: pull, push, or the conflict policy.
changeBranchRemoteFirst(remoteChanged, localChanged) ==
  IF remoteChanged THEN "pull"
  ELSE IF localChanged THEN "push"
  ELSE "policy"

changeBranch(remoteChanged, localChanged) ==
  IF remoteChanged /\ ~localChanged THEN "pull"
  ELSE IF ~remoteChanged /\ localChanged THEN "push"
  ELSE "policy"

\* The branch syncCloudNow takes when the hashes differ: the explicit resolution,
\* then the change flags, then the conflict policy.
differingDecision(meta, input, localSnapshot, remote) ==
  LET remoteChanged == remoteChangedSinceLastSync(meta, remote)
      localChanged == localChangedSinceLastSync(meta, hashSnapshot(localSnapshot))
      branch == changeBranch(remoteChanged, localChanged)
      chosen == chooseConflictPolicy(EffectivePolicy(input), localSnapshot, remote.payload)
  IN IF input.resolveConflict /\ input.policy = "prefer-cloud"
     THEN [act |-> "pull", message |-> "Conflict resolved using cloud state."]
     ELSE IF input.resolveConflict /\ input.policy = "prefer-local"
     THEN [act |-> "push", message |-> "Conflict resolved using local state."]
     ELSE IF branch = "pull"
     THEN [act |-> "pull", message |-> "Pulled latest cloud state."]
     ELSE IF branch = "push"
     THEN [act |-> "push", message |-> "Pushed local state to cloud."]
     ELSE IF chosen = "local"
     THEN [act |-> "push", message |-> "Conflict resolved using local state."]
     ELSE IF chosen = "remote"
     THEN [act |-> "pull", message |-> "Conflict resolved using cloud state."]
     ELSE [act |-> "conflict", message |-> "Sync conflict detected."]

syncDecisionResolveFirst(meta, input, localSnapshot, remote) ==
  IF input.resolveConflict /\ input.policy \in {"prefer-cloud", "prefer-local"}
  THEN differingDecision(meta, input, localSnapshot, remote)
  ELSE IF hashSnapshot(remote.payload) = hashSnapshot(localSnapshot)
  THEN [act |-> "up-to-date", message |-> "Cloud sync is up to date."]
  ELSE differingDecision(meta, input, localSnapshot, remote)

\* The branch syncCloudNow takes once the remote state is fetched:
\* act is up-to-date, pull, push or conflict; message is the result's message.
syncDecision(meta, input, localSnapshot, remote) ==
  IF hashSnapshot(remote.payload) = hashSnapshot(localSnapshot)
  THEN [act |-> "up-to-date", message |-> "Cloud sync is up to date."]
  ELSE differingDecision(meta, input, localSnapshot, remote)

\* ------------------------------------------------------- content resolution: data
\* The instance the mods operations work on, and the game version they resolve for.
ModsInstance == "a"
McVersion == "1.20.1"

\* An upstream file name: the stem as its runs of characters, and the extension.
UpName(stem, ext) == [stem |-> stem, ext |-> ext]
NoUpName == UpName(<< >>, "")

\* Runs of characters outside [a-zA-Z0-9._-] that occur in upstream names.
UnsafeRuns == {" ", " (", ")+"}

\* upstreamFileName.replace(/[^a-zA-Z0-9._-]+/g, "_"): every unsafe run becomes one "_".
safeName(upstream) ==
  [upstream EXCEPT !.stem = [i \in 1..Len(upstream.stem) |->
                               IF upstream.stem[i] \in UnsafeRuns THEN "_" ELSE upstream.stem[i]]]

\* A file name of the mods directory: <prefix>__[<modId>__]<upstream>[.disabled].
NoFileName == [prefix |-> "", modId |-> "", upstream |-> NoUpName, disabled |-> FALSE]

\* targetFileName(catalogId, upstreamFileName, enabled)
targetFileName(catalogId, upstreamFileName, enabled) ==
  [prefix |-> catalogId, modId |-> "", upstream |-> safeName(upstreamFileName), disabled |-> ~enabled]

\* `dep__${depModId}__${safeUpstream}`
depFileName(depModId, upstreamFileName) ==
  [prefix |-> "dep", modId |-> depModId, upstream |-> safeName(upstreamFileName), disabled |-> FALSE]

\* f.startsWith(prefix + "__"), f.endsWith(".jar"), f.endsWith(".jar.disabled")
StartsWithPrefix(name, prefix) == name.prefix = prefix
EndsWithJar(name) == name.upstream.ext = "jar" /\ ~name.disabled
EndsWithJarDisabled(name) == name.upstream.ext = "jar" /\ name.disabled

\* A directory is a set of [name, bytes] files, one per name.
HasFile(files, name) == \E f \in files : f.name = name
FileBytes(files, name) == (CHOOSE f \in files : f.name = name).bytes
\* fs.copyFileSync / fs.writeFileSync: the target is created or overwritten.
writeFile(files, name, bytes) == {f \in files : f.name # name} \cup {[name |-> name, bytes |-> bytes]}

cleanOldFilesForCatalogId(files, catalogId) ==
  {f \in files : ~(/\ StartsWithPrefix(f.name, catalogId)
                   /\ EndsWithJar(f.name) \/ EndsWithJarDisabled(f.name))}

cleanAutoDependencyFiles(files) ==
  {f \in files : ~(StartsWithPrefix(f.name, "dep") /\ EndsWithJar(f.name))}

\* File contents: a tag naming the bytes, and the id of fabric.mod.json if there is one.
Body(tag, modId) == [tag |-> tag, modId |-> modId]
NoBody == Body("", NullStr)

NoSha == << >>
sha1Of(buf) == << "sha1", buf.tag >>
sha512Of(buf) == << "sha512", buf.tag >>

\* readFabricModIdFromJar: null when the archive has no fabric.mod.json id.
readFabricModIdFromJar(buf) == buf.modId

collectInstalledModIds(files) ==
  {readFabricModIdFromJar(f.bytes) : f \in {g \in files : EndsWithJar(g.name)}} \ {NullStr}

\* Cache file names: `${owner}-${sha1}.jar`, or `${owner}-${fileName}` without a sha1;
\* dependency entries carry the "dep-" prefix.
cacheName(dep, owner, sha1, fileName) ==
  [dep |-> dep, owner |-> owner,
   key |-> IF sha1 # NoSha THEN << "sha1", sha1[2], "jar" >>
           ELSE << "name" >> \o fileName.stem \o << fileName.ext >>]

\* A version name is its runs of digits, as numbers, and the text between them.
NoVersionName == << >>
\* The version name "<a>.<b>.<c>".
Dotted(a, b, c) == << Num(a), Str("."), Num(b), Str("."), Num(c) >>

\* ResolvedMod records; the members a record does not have hold the null values.
NoResolved ==
  [catalogId |-> "", enabled |-> FALSE, status |-> "none", mcVersion |-> "", loader |-> "",
   versionName |-> NoVersionName, upstreamFileName |-> NoUpName, fileName |-> NoFileName,
   downloadUrl |-> NullStr, sha1 |-> NoSha, sha512 |-> NoSha,
   requiredProjectIds |-> << >>, error |-> NullStr, lastCheckedAt |-> NullNum]

\* The record of a disabled entry, of an entry without a compatible file and of a failure.
unresolvedRecord(catalogId, status, error, clock) ==
  [NoResolved EXCEPT !.catalogId = catalogId, !.enabled = FALSE, !.status = status,
                     !.mcVersion = McVersion, !.loader = "fabric",
                     !.error = error, !.lastCheckedAt = clock]

\* r.requiredProjectIds ?? []: the member of a resolver result, or the empty list
\* for a result that has no such member.
RequiredOf(r) ==
  IF "requiredProjectIds" \in DOMAIN r THEN r.requiredProjectIds ELSE << >>

\* The record of an installed entry.
okRecord(catalogId, shouldEnable, r, target, clock) ==
  [NoResolved EXCEPT !.catalogId = catalogId, !.enabled = shouldEnable, !.status = "ok",
                     !.mcVersion = McVersion, !.loader = "fabric",
                     !.versionName = r.versionName, !.upstreamFileName = r.fileName,
                     !.fileName = target, !.downloadUrl = r.url,
                     !.sha1 = r.sha1, !.sha512 = r.sha512,
                     !.requiredProjectIds = RequiredOf(r), !.lastCheckedAt = clock]

\* A JSON object with one member set: the member keeps its place if it exists.
SetKey(obj, key, value) ==
  IF HasKey(obj, key)
  THEN [i \in 1..Len(obj) |-> IF obj[i].k = key THEN [k |-> key, v |-> value] ELSE obj[i]]
  ELSE Append(obj, [k |-> key, v |-> value])

\* ------------------------------------------------------- the provider
\* What the provider answers for a project: the lookup throws, finds no version, or
\* returns the newest version's primary file (version name, file name, url and the
\* two hashes; no list of required projects); `served` is what the file's url delivers.
Served(fails, body) == [fails |-> fails, body |-> body]

ProviderFile(versionName, fileName, url, sha1, sha512, served) ==
  [kind |-> "ok", versionName |-> versionName, fileName |-> fileName, url |-> url,
   sha1 |-> sha1, sha512 |-> sha512, served |-> served]

\* The lookup returns null (no version matches), or throws.
NoVersion == [kind |-> "none"]
LookupFails == [kind |-> "throws"]
\* No answer: the call has not asked the provider for the project.
NoAnswer == [kind |-> "unasked"]
\* The answer a call got for a project, from the answers it has collected.
answerOf(answers, projectId) ==
  IF projectId \in DOMAIN answers THEN answers[projectId] ELSE NoAnswer

\* resolveLatestModrinth: the error message of a failed lookup.
ResolveFailed == "Modrinth resolve failed: 500"
\* downloadBuffer: the error message of a failed download.
DownloadFailed == "Download failed: 404"

\* fabric-api artifacts.
FabricJar == Body("fabric-api-0.92.0", "fabric-api")
FabricZip == Body("fabric-api-0.93.0", "fabric-api")
FabricJar95 == Body("fabric-api-0.95.0", "fabric-api")
FabricJar100 == Body("fabric-api-1.0.0", "fabric-api")
Corrupt == Body("truncated", NullStr)

\* A jar whose upstream name needs sanitising, with its hashes.
FabricV1 ==
  ProviderFile(Dotted(0, 92, 0), UpName(<< "fabric-api", " (", "0.92.0", ")+", "1.20.1" >>, "jar"), "cdn/fabric-0.92.0",
               sha1Of(FabricJar), sha512Of(FabricJar), Served(FALSE, FabricJar))
\* A version whose primary file is not a .jar.
FabricV2Zip ==
  ProviderFile(Dotted(0, 93, 0), UpName(<< "fabric-api-0.93.0" >>, "zip"), "cdn/fabric-0.93.0",
               sha1Of(FabricZip), sha512Of(FabricZip), Served(FALSE, FabricZip))
\* A version listed without a sha1, whose download arrives damaged.
FabricNoSha1 ==
  ProviderFile(Dotted(0, 94, 0), UpName(<< "fabric-api-0.94.0" >>, "jar"), "cdn/fabric-0.94.0",
               NoSha, sha512Of(FabricJar), Served(FALSE, Corrupt))
\* A version whose download does not match the listed sha1.
FabricMismatch ==
  ProviderFile(Dotted(0, 95, 0), UpName(<< "fabric-api-0.95.0" >>, "jar"), "cdn/fabric-0.95.0",
               sha1Of(FabricJar95), sha512Of(FabricJar95), Served(FALSE, Corrupt))
\* The next major version, whose download fails.
FabricNoDownload ==
  ProviderFile(Dotted(1, 0, 0), UpName(<< "fabric-api-1.0.0" >>, "jar"), "cdn/fabric-1.0.0",
               sha1Of(FabricJar100), sha512Of(FabricJar100), Served(TRUE, NoBody))

FabricResponses == {FabricV1, FabricV2Zip, FabricNoSha1, FabricMismatch, FabricNoDownload, LookupFails}

\* sodium artifacts.
SodiumJar == Body("sodium-0.5.3", "sodium")
SodiumJar2 == Body("sodium-0.5.4", "sodium")
SodiumJar3 == Body("sodium-0.5.5", "sodium")
SodiumV1 ==
  ProviderFile(Dotted(0, 5, 3), UpName(<< "sodium-0.5.3" >>, "jar"), "cdn/sodium-0.5.3",
               sha1Of(SodiumJar), sha512Of(SodiumJar), Served(FALSE, SodiumJar))
\* A later build named after the game version.
SodiumV2 ==
  ProviderFile(<< Str("mc") >> \o Dotted(1, 20, 1) \o << Str("-") >> \o Dotted(0, 5, 4),
               UpName(<< "sodium-mc1.20.1-0.5.4" >>, "jar"), "cdn/sodium-0.5.4",
               sha1Of(SodiumJar2), sha512Of(SodiumJar2), Served(FALSE, SodiumJar2))
\* The build after that.
SodiumV3 ==
  ProviderFile(Dotted(0, 5, 5), UpName(<< "sodium-0.5.5" >>, "jar"), "cdn/sodium-0.5.5",
               sha1Of(SodiumJar3), sha512Of(SodiumJar3), Served(FALSE, SodiumJar3))
SodiumResponses == {SodiumV1, SodiumV2, SodiumV3, NoVersion}

Projects == {CATALOG[i].projectId : i \in 1..Len(CATALOG)}

\* The provider with the given answers for fabric-api and sodium.
ProviderWith(fabric, sodium) ==
  [p \in Projects |->
     CASE p = "P7dR8mSH" -> fabric
       [] p = "AANobbMI" -> sodium
       [] OTHER -> NoVersion]

\* String(x).trim(): the refs written with blanks around them, and what is left of them.
Padded == (" " :> "") @@ ("P7dR8mSH " :> "P7dR8mSH") @@ (" AANobbMI" :> "AANobbMI")
trim(ref) == IF ref \in DOMAIN Padded THEN Padded[ref] ELSE ref

\* ------------------------------------------------------- state
VARIABLES
  now,        \* Date.now()
  settings,   \* the caller's settings blob, handed to every syncCloudNow call
  metaFile,   \* the sync-state file (exists, state)
  db,         \* the instance database (activeInstanceId, instances, updatedAt)
  modsFiles,  \* per instance: the mods-state file (exists, state, mtime)
  packsFiles, \* per instance: the packs-state file
  server,     \* the remote sync endpoint's stored state
  att,        \* per caller: the suspended syncCloudNow call (its locals)
  last,       \* the value returned by the most recent syncCloudNow call, with its trace
  edited,     \* a local edit happened since the most recent call started
  moved,      \* another device uploaded since this client last exchanged with the endpoint
  events,     \* number of environment events so far (clock ticks, uploads of other devices, local edits)
  calls,       \* number of syncCloudNow calls made so far
  provider,   \* per project: what the provider answers (resolveLatestModrinth, downloadBuffer)
  dir,        \* the instance's mods directory: a set of [name, bytes] files
  cache,      \* the mod cache directory: a set of [name, bytes] files
  rf,         \* the running refreshModsForInstance or planModRefreshForInstance call: its position and locals
  lastOp,     \* the last mods operation: its arguments and what it found and did
  ops,        \* mods operations and provider changes so far
  opt         \* the instance's memory/JVM settings and the last applyOptimizer call

modsVars == << provider, dir, cache, rf, lastOp, ops, opt >>

vars == << now, settings, metaFile, db, modsFiles, packsFiles, server, att, last, edited, moved, events, calls,
          provider, dir, cache, rf, lastOp, ops, opt >>

Procs == {1, 2}
SeqProcs == {1}
InstIds == {"a", "b"}

Policies == {"ask", "newer-wins", "prefer-local", "prefer-cloud"}

\* Settings blobs of the caller: S2 is S1 plus a key outside the allow-list,
\* in another member order; S3 has no settingsUpdatedAt; S4 carries it as text.
SettingsS1 == << [k |-> "theme", v |-> Str("dark")], [k |-> "settingsUpdatedAt", v |-> Num(1)] >>
SettingsS2 == << [k |-> "authToken", v |-> Str("s3cr3t")], [k |-> "settingsUpdatedAt", v |-> Num(1)],
                 [k |-> "theme", v |-> Str("dark")] >>
SettingsS3 == << [k |-> "theme", v |-> Str("light")] >>
SettingsS4 == << [k |-> "theme", v |-> Str("light")], [k |-> "settingsUpdatedAt", v |-> Str("2")] >>
SettingsInputs == {SettingsS1, SettingsS2, SettingsS3, SettingsS4}

\* The policy and the resolveConflict flag of a request; the settings blob of the
\* request is the caller's current settings.
SyncRequests == [policy : Policies \cup {NullStr}, resolveConflict : BOOLEAN]

\* A mods state another device uploaded: a required entry switched off, and the
\* record of the sodium file that device installed.
RemoteModsState ==
  [defaultState EXCEPT
     !.enabled["fabric-api"] = FALSE, !.enabled["sodium"] = TRUE,
     !.resolved = << [k |-> "sodium",
                      v |-> okRecord("sodium", TRUE, SodiumV1,
                                     targetFileName("sodium", SodiumV1.fileName, TRUE), 1)] >>]

Inst(id, sync) == [id |-> id, syncEnabled |-> sync]

\* Payloads other devices upload: as collectLocalSnapshot builds them, each carries
\* a mods state and a packs state for every instance it syncs.
RemoteP1 ==
  [settings |-> << [k |-> "theme", v |-> Str("light")], [k |-> "authToken", v |-> Str("t0k3n")] >>,
   activeInstanceId |-> NullStr,
   instances |-> << Inst("a", TRUE) >>,
   modsStateByInstance |-> << [k |-> "a", v |-> defaultState] >>,
   packsStateByInstance |-> << [k |-> "a", v |-> defaultPacksState] >>,
   settingsUpdatedAt |-> 1, instancesUpdatedAt |-> 1, capturedAt |-> 1]
RemoteP2 ==
  [settings |-> << [k |-> "theme", v |-> Str("dark")], [k |-> "settingsUpdatedAt", v |-> Num(3)] >>,
   activeInstanceId |-> "b",
   instances |-> << Inst("b", TRUE), Inst("a", TRUE) >>,
   modsStateByInstance |-> << [k |-> "b", v |-> defaultState], [k |-> "a", v |-> RemoteModsState] >>,
   packsStateByInstance |-> << [k |-> "b", v |-> defaultPacksState], [k |-> "a", v |-> defaultPacksState] >>,
   settingsUpdatedAt |-> 3, instancesUpdatedAt |-> 2, capturedAt |-> 2]
RemoteP3 ==
  [settings |-> << >>,
   activeInstanceId |-> "gone",
   instances |-> << >>,
   modsStateByInstance |-> << >>,
   packsStateByInstance |-> << >>,
   settingsUpdatedAt |-> 0, instancesUpdatedAt |-> 0, capturedAt |-> 0]
RemotePayloads == {RemoteP1, RemoteP2, RemoteP3}

ErrorMessages == {"fetch failed"}

NoPut == [issued |-> FALSE]
IdleRemote == [revision |-> 0]
\* The answer to a PUT: the revision the endpoint stored the payload under.
NoPushed == [revision |-> NullNum]
IdleInput == [settings |-> << >>, policy |-> NullStr, resolveConflict |-> FALSE]
IdleAtt == [pc |-> "idle", input |-> IdleInput, meta |-> readLocalSyncState(NoMetaFile),
            firstSync |-> FALSE, localSnapshot |-> << >>, remote |-> IdleRemote,
            put |-> NoPut, pushed |-> NoPushed, message |-> "", editedBefore |-> FALSE, moved |-> FALSE]

\* The SyncNowResult of a call (status .. settingsPatch) and what the call did.
NoResult ==
  [status |-> "none", ok |-> FALSE, message |-> "", lastSyncedAt |-> NullNum,
   lastRemoteRevision |-> NullNum, hasPatch |-> FALSE, settingsPatch |-> << >>,
   firstSync |-> FALSE, fetched |-> FALSE, hashEqual |-> FALSE,
   remoteChanged |-> FALSE, localChanged |-> FALSE, putIssued |-> FALSE, applied |-> FALSE]

NoStateFile == [exists |-> FALSE, state |-> << >>, mtime |-> 0]
NoPacksFile == [exists |-> FALSE, state |-> << >>, mtime |-> 0]

SyncInit ==
  /\ now = 1
  /\ settings = SettingsS2
  /\ metaFile = NoMetaFile
  /\ db = [activeInstanceId |-> "a", instances |-> << Inst("a", TRUE), Inst("b", FALSE) >>, updatedAt |-> 0]
  /\ modsFiles = [id \in InstIds |-> NoStateFile]
  /\ packsFiles = [id \in InstIds |-> NoPacksFile]
  /\ server = [revision |-> 0, hasPayload |-> FALSE, payload |-> EmptySnapshot]
  /\ att = [p \in Procs |-> IdleAtt]
  /\ last = NoResult
  /\ edited = FALSE
  /\ moved = FALSE
  /\ events = 0
  /\ calls = 0

\* What the mods operations find before the first of them ran.
NoSnapshot == [dir |-> {}]

\* No setModEnabled call ran while the refresh was suspended.
NoOverlap == [happened |-> FALSE]

IdleRefresh ==
  [pc |-> "idle", overlap |-> NoOverlap, i |-> 0, hasTarget |-> FALSE, targetCatalogIds |-> << >>,
   state |-> << >>, resolved |-> << >>, dependencyQueue |-> << >>,
   visitedProjects |-> {}, installedIds |-> {},
   downloads |-> {}, lookups |-> << >>, before |-> NoSnapshot,
   answer |-> NoAnswer, answers |-> << >>,
   prevAnswers |-> << >>,
   prevOp |-> "none", prevHasTarget |-> FALSE, prevTarget |-> << >>]

\* The update plan before any planModRefreshForInstance call.
NoPlan == [checkedAt |-> NullNum, updates |-> << >>, blocked |-> << >>,
           counts |-> [safe |-> 0, caution |-> 0, breaking |-> 0]]

NoOp ==
  [op |-> "none", plan |-> NoPlan, overlap |-> NoOverlap, modId |-> "", requested |-> FALSE, hasTarget |-> FALSE, targetCatalogIds |-> << >>,
   downloads |-> {}, lookups |-> << >>, before |-> NoSnapshot,
   answers |-> << >>, prevAnswers |-> << >>,
   prevOp |-> "none", prevHasTarget |-> FALSE, prevTarget |-> << >>]

\* The instance's memory/JVM settings as created, and no applyOptimizer or
\* restoreOptimizerDefaults call yet.
NoBackup == [present |-> FALSE, memoryMb |-> 0, jvmArgsOverride |-> NullStr]
DefaultMemoryMb == 4096
OptIdle ==
  [config |-> [memoryMb |-> DefaultMemoryMb, jvmArgsOverride |-> NullStr, optimizerBackup |-> NoBackup],
   before |-> << >>,
   pc |-> "idle", instanceId |-> "", found |-> FALSE, profile |-> "", modsToEnable |-> << >>,
   error |-> NullStr, modCalls |-> 0, refreshReached |-> FALSE, restored |-> NullStr]

ModsIdle ==
  /\ dir = {}
  /\ cache = {}
  /\ rf = IdleRefresh
  /\ lastOp = NoOp
  /\ ops = 0
  /\ opt = OptIdle

\* The sync calls never ask the provider: it lists no version while they run.
Init ==
  /\ SyncInit
  /\ provider = ProviderWith(NoVersion, NoVersion)
  /\ ModsIdle

\* ------------------------------------------------------- setModEnabled
\* saveModsState: the state file rewritten.
saveModsState(state, clock) == [exists |-> TRUE, state |-> state, mtime |-> clock]

\* The files of the mods directory a lookup by prefix and .jar/.jar.disabled suffix finds.
installedFor(files, catalogId) ==
  {f \in files : /\ StartsWithPrefix(f.name, catalogId)
                 /\ EndsWithJar(f.name) \/ EndsWithJarDisabled(f.name)}

\* The fast path of setModEnabled: the mods directory after it.
applyEnabled(res, files, cached, modId, enabled) ==
  LET upstream ==
        IF res.upstreamFileName # NoUpName THEN res.upstreamFileName
        ELSE IF res.fileName # NoFileName THEN res.fileName.upstream ELSE NoUpName
      name == cacheName(FALSE, modId, res.sha1, NoUpName)
      cleaned == cleanOldFilesForCatalogId(files, modId)
      target == targetFileName(modId, upstream, TRUE)
      candidates == installedFor(cleaned, modId)
  IN IF res.status # "ok" THEN files
     ELSE IF ~enabled THEN cleaned
     ELSE IF upstream = NoUpName THEN files
     ELSE IF res.sha1 # NoSha /\ HasFile(cached, name) /\ FileBytes(cached, name) # NoBody
          THEN writeFile(cleaned, target, FileBytes(cached, name))
     ELSE IF candidates # {}
          THEN LET any == CHOOSE f \in candidates : TRUE
               IN writeFile(cleaned \ {any}, target, any.bytes)
     ELSE cleaned

\* setModEnabled without the override for required entries.
setModEnabledAsRequested(file, files, cached, modId, enabled, clock) ==
  LET state == IF file.exists THEN file.state ELSE defaultState
      saved == [state EXCEPT !.enabled[modId] = enabled]
  IN [file |-> saveModsState(saved, clock),
      dir |-> IF HasKey(state.resolved, modId)
              THEN applyEnabled(GetKey(state.resolved, modId), files, cached, modId, enabled)
              ELSE files]

\* setModEnabled(instanceId, modId, enabled): the state file and the mods directory after it.
setModEnabled(file, files, cached, modId, enabled, clock) ==
  LET state == IF file.exists THEN file.state ELSE defaultState
      mod == CatalogEntry(modId)
      effective == IF mod.required THEN TRUE ELSE enabled
      saved == [state EXCEPT !.enabled[modId] = effective]
  IN [file |-> saveModsState(saved, clock),
      dir |-> IF HasKey(state.resolved, modId)
              THEN applyEnabled(GetKey(state.resolved, modId), files, cached, modId, effective)
              ELSE files]

\* The mods state read back from the instance's state file.
Persisted == loadModsState(modsFiles, ModsInstance)

\* What an operation finds when it starts.
Snapshot == [file |-> modsFiles[ModsInstance], dir |-> dir, cache |-> cache]

\* Ids callers toggle; the last one is not in the catalog.
ToggleIds == {"fabric-api", "sodium", "optifine"}

\* The toggled ids of the catalog.
CatalogToggleIds == ToggleIds \cap CatalogIds

\* A setModEnabled call. An unknown id throws before anything is written.
SetModEnabled(modId, enabled) ==
  /\ rf.pc = "idle"
  /\ ops < MaxOps
  /\ ops' = ops + 1
  /\ lastOp' = [NoOp EXCEPT !.op = "setEnabled", !.modId = modId, !.requested = enabled,
                            !.before = Snapshot, !.prevOp = lastOp.op]
  /\ IF modId \in CatalogIds
     THEN LET after == setModEnabled(modsFiles[ModsInstance], dir, cache, modId, enabled, now)
          IN /\ modsFiles' = [modsFiles EXCEPT ![ModsInstance] = after.file]
             /\ dir' = after.dir
     ELSE UNCHANGED << modsFiles, dir >>
  /\ UNCHANGED << now, settings, metaFile, db, packsFiles, server, att, last, edited, moved, events, calls, opt,
                  provider, cache, rf >>

\* ------------------------------------------------------- refreshModsForInstance
Range(seq) == {seq[i] : i \in 1..Len(seq)}

\* A refresh that ignores its target list.
targetSetIgnored(hasTarget, targetCatalogIds) == [null |-> TRUE, ids |-> {}]

\* opts.targetCatalogIds?.length ? new Set(...) : null
targetSet(hasTarget, targetCatalogIds) ==
  IF hasTarget /\ Len(targetCatalogIds) > 0
  THEN [null |-> FALSE, ids |-> Range(targetCatalogIds)]
  ELSE [null |-> TRUE, ids |-> {}]

\* A refresh that fetches every artifact again.
needsDownloadAlways(cached, name) == TRUE

\* !fs.existsSync(cachedPath)
needsDownload(cached, name) == ~HasFile(cached, name)

\* The cache file of an artifact made present: downloaded unless it exists, checked
\* against the sha1 the provider listed (if it listed one), then written.
fetchArtifact(cached, name, r, mismatch) ==
  IF ~needsDownload(cached, name)
  THEN [ok |-> TRUE, error |-> NullStr, cache |-> cached, downloads |-> {}]
  ELSE IF r.served.fails
  THEN [ok |-> FALSE, error |-> DownloadFailed, cache |-> cached, downloads |-> {name}]
  ELSE IF r.sha1 # NoSha /\ sha1Of(r.served.body) # r.sha1
  THEN [ok |-> FALSE, error |-> mismatch, cache |-> cached, downloads |-> {name}]
  ELSE [ok |-> TRUE, error |-> NullStr, cache |-> writeFile(cached, name, r.served.body),
        downloads |-> {name}]

\* The catalog loop asks the provider for an entry: the entry is in the target set
\* (or there is none) and it is required or enabled.
awaitsLookup(mod, state, tset) ==
  /\ tset.null \/ mod.id \in tset.ids
  /\ mod.required \/ state.enabled[mod.id]

\* The loop waits for a download: the lookup returned a file that is not in the cache.
awaitsDownload(dep, owner, cached, r) ==
  r.kind = "ok" /\ needsDownload(cached, cacheName(dep, owner, r.sha1, r.fileName))

\* One pass of the catalog loop, given what the lookup answered: the entry's record,
\* the mods directory, the cache, the dependency refs it queues and the downloads
\* it made.
refreshEntry(mod, state, resolved, files, cached, r, tset, clock) ==
  LET shouldEnable == IF mod.required THEN TRUE ELSE state.enabled[mod.id]
      name == cacheName(FALSE, mod.id, r.sha1, r.fileName)
      got == fetchArtifact(cached, name, r, "SHA1 mismatch for " \o mod.id)
      target == targetFileName(mod.id, r.fileName, TRUE)
      cleaned == cleanOldFilesForCatalogId(files, mod.id)
      failed(status, error, downloads) ==
        [resolved |-> SetKey(resolved, mod.id, unresolvedRecord(mod.id, status, error, clock)),
         dir |-> cleaned, cache |-> cached, deps |-> << >>, downloads |-> downloads]
  IN IF ~tset.null /\ mod.id \notin tset.ids
     THEN [resolved |-> IF HasKey(state.resolved, mod.id)
                        THEN SetKey(resolved, mod.id, GetKey(state.resolved, mod.id))
                        ELSE resolved,
           dir |-> files, cache |-> cached, deps |-> << >>, downloads |-> {}]
     ELSE IF ~shouldEnable THEN failed("unavailable", NullStr, {})
     ELSE IF r.kind = "throws" THEN failed("error", ResolveFailed, {})
     ELSE IF r.kind = "none" THEN failed("unavailable", NullStr, {})
     ELSE IF ~got.ok THEN failed("error", got.error, got.downloads)
     ELSE [resolved |-> SetKey(resolved, mod.id, okRecord(mod.id, shouldEnable, r, target, clock)),
           dir |-> writeFile(cleaned, target, FileBytes(got.cache, name)),
           cache |-> got.cache, deps |-> RequiredOf(r), downloads |-> got.downloads]

\* !depProjectId || visitedProjects.has(depProjectId)
skipDependency(depProjectId, visitedProjects) ==
  depProjectId = "" \/ depProjectId \in visitedProjects

\* What the lookup of a dependency ref answers.
depAnswer(prov, depProjectId) ==
  IF depProjectId \in Projects THEN prov[depProjectId] ELSE LookupFails

\* One pass of the dependency loop, given what the lookup answered.
refreshDep(queue, visitedProjects, installedIds, files, cached, r) ==
  LET depProjectId == trim(Head(queue))
      rest == Tail(queue)
      visited == visitedProjects \cup {depProjectId}
      name == cacheName(TRUE, depProjectId, r.sha1, r.fileName)
      got == fetchArtifact(cached, name, r, "SHA1 mismatch for dependency " \o depProjectId)
      bytes == FileBytes(got.cache, name)
      depModId == IF readFabricModIdFromJar(bytes) # NullStr
                  THEN readFabricModIdFromJar(bytes) ELSE depProjectId
      skipped == [queue |-> rest, visitedProjects |-> visitedProjects, installedIds |-> installedIds,
                  dir |-> files, cache |-> cached, downloads |-> {}, lookups |-> << >>]
      looked == [skipped EXCEPT !.visitedProjects = visited, !.lookups = << depProjectId >>]
  IN IF skipDependency(depProjectId, visitedProjects) THEN skipped
     ELSE IF r.kind # "ok" THEN looked
     ELSE IF ~got.ok THEN [looked EXCEPT !.downloads = got.downloads]
     ELSE [looked EXCEPT
             !.queue = rest \o SelectSeq(RequiredOf(r), LAMBDA t : t \notin visited),
             !.installedIds = installedIds \cup {depModId},
             !.dir = IF depModId \in installedIds THEN files
                     ELSE writeFile(files, depFileName(depModId, r.fileName), bytes),
             !.cache = got.cache,
             !.downloads = got.downloads]

\* Target lists callers pass.
TargetLists == {<< >>, << "sodium" >>}

\* The call starts: the state is loaded; the clock has moved on since the last operation.
RefreshStart(hasTarget, targetCatalogIds) ==
  /\ rf.pc = "idle"
  /\ ops < MaxOps
  /\ ops' = ops + 1
  /\ now' = now + 1
  /\ rf' = [IdleRefresh EXCEPT !.pc = "catalog", !.i = 1,
                               !.hasTarget = hasTarget, !.targetCatalogIds = targetCatalogIds,
                               !.state = loadModsState(modsFiles, ModsInstance),
                               !.before = Snapshot, !.prevAnswers = lastOp.answers,
                               !.prevOp = lastOp.op, !.prevHasTarget = lastOp.hasTarget,
                               !.prevTarget = lastOp.targetCatalogIds]
  /\ UNCHANGED << settings, metaFile, db, modsFiles, packsFiles, server, att, last, edited, moved, events, calls, opt,
                  provider, dir, cache, lastOp >>

\* The catalog loop from the lookup's answer r on (for an entry it does not look
\* up: the whole pass): the download if one is needed, the check, the writes, the
\* record.
RefreshEntryWrites(r) ==
  LET mod == CATALOG[rf.i]
      tset == targetSet(rf.hasTarget, rf.targetCatalogIds)
      out == refreshEntry(mod, rf.state, rf.resolved, dir, cache, r, tset, now)
  IN /\ dir' = out.dir
     /\ cache' = out.cache
     /\ rf' = [rf EXCEPT !.resolved = out.resolved,
                         !.dependencyQueue = rf.dependencyQueue \o out.deps,
                         !.downloads = rf.downloads \cup out.downloads,
                         !.answer = NoAnswer,
                         !.answers = IF awaitsLookup(mod, rf.state, tset)
                                     THEN (mod.projectId :> r) @@ rf.answers
                                     ELSE rf.answers,
                         !.i = rf.i + 1,
                         !.pc = IF rf.i = Len(CATALOG) THEN "walk" ELSE "catalog"]

\* The catalog loop handles one entry up to its next wait: the lookup is answered;
\* when the file it names is not cached the download is requested and the call
\* waits again, otherwise the pass is finished.
RefreshEntry ==
  /\ rf.pc = "catalog"
  /\ LET mod == CATALOG[rf.i]
         r == provider[mod.projectId]
     IN IF /\ awaitsLookup(mod, rf.state, targetSet(rf.hasTarget, rf.targetCatalogIds))
           /\ awaitsDownload(FALSE, mod.id, cache, r)
        THEN /\ rf' = [rf EXCEPT !.pc = "download", !.answer = r]
             /\ UNCHANGED << dir, cache >>
        ELSE RefreshEntryWrites(r)
  /\ UNCHANGED << now, settings, metaFile, db, modsFiles, packsFiles, server, att, last, edited, moved, events, calls, opt,
                  provider, lastOp, ops >>

\* The download of the entry's file is answered: the pass is finished with the
\* answer the lookup gave.
RefreshDownload ==
  /\ rf.pc = "download"
  /\ RefreshEntryWrites(rf.answer)
  /\ UNCHANGED << now, settings, metaFile, db, modsFiles, packsFiles, server, att, last, edited, moved, events, calls, opt,
                  provider, lastOp, ops >>

\* Between the loops: auto-installed dependencies are removed in a full refresh, and
\* the ids of the installed jars are collected.
RefreshWalkStart ==
  /\ rf.pc = "walk"
  /\ dir' = IF targetSet(rf.hasTarget, rf.targetCatalogIds).null THEN cleanAutoDependencyFiles(dir) ELSE dir
  /\ rf' = [rf EXCEPT !.pc = "deps", !.installedIds = collectInstalledModIds(dir'),
                      !.visitedProjects = {}]
  /\ UNCHANGED << now, settings, metaFile, db, modsFiles, packsFiles, server, att, last, edited, moved, events, calls, opt,
                  provider, cache, lastOp, ops >>

\* The dependency loop from the lookup's answer r on.
RefreshDepWrites(r) ==
  LET out == refreshDep(rf.dependencyQueue, rf.visitedProjects, rf.installedIds, dir, cache, r)
  IN /\ dir' = out.dir
     /\ cache' = out.cache
     /\ rf' = [rf EXCEPT !.pc = "deps",
                         !.answer = NoAnswer,
                         !.dependencyQueue = out.queue,
                         !.visitedProjects = out.visitedProjects,
                         !.installedIds = out.installedIds,
                         !.downloads = rf.downloads \cup out.downloads,
                         !.lookups = rf.lookups \o out.lookups]

\* The dependency loop handles the head of the queue up to its next wait.
RefreshDep ==
  /\ rf.pc = "deps"
  /\ rf.dependencyQueue # << >>
  /\ LET depProjectId == trim(Head(rf.dependencyQueue))
         r == depAnswer(provider, depProjectId)
     IN IF /\ ~skipDependency(depProjectId, rf.visitedProjects)
           /\ awaitsDownload(TRUE, depProjectId, cache, r)
        THEN /\ rf' = [rf EXCEPT !.pc = "depdownload", !.answer = r]
             /\ UNCHANGED << dir, cache >>
        ELSE RefreshDepWrites(r)
  /\ UNCHANGED << now, settings, metaFile, db, modsFiles, packsFiles, server, att, last, edited, moved, events, calls, opt,
                  provider, lastOp, ops >>

\* The download of a dependency's file is answered.
RefreshDepDownload ==
  /\ rf.pc = "depdownload"
  /\ RefreshDepWrites(rf.answer)
  /\ UNCHANGED << now, settings, metaFile, db, modsFiles, packsFiles, server, att, last, edited, moved, events, calls, opt,
                  provider, lastOp, ops >>

\* A closing save that loads the state file again and only replaces its records.
RefreshSaveMerged ==
  /\ rf.pc = "deps"
  /\ rf.dependencyQueue = << >>
  /\ modsFiles' = [modsFiles EXCEPT ![ModsInstance] =
                     saveModsState([Persisted EXCEPT !.resolved = rf.resolved], now)]
  /\ lastOp' = [NoOp EXCEPT !.op = "refresh", !.hasTarget = rf.hasTarget,
                            !.targetCatalogIds = rf.targetCatalogIds,
                            !.downloads = rf.downloads, !.lookups = rf.lookups,
                            !.overlap = rf.overlap,
                            !.answers = rf.answers, !.prevAnswers = rf.prevAnswers,
                            !.before = rf.before, !.prevOp = rf.prevOp,
                            !.prevHasTarget = rf.prevHasTarget, !.prevTarget = rf.prevTarget]
  /\ rf' = IdleRefresh
  /\ UNCHANGED << now, settings, metaFile, db, packsFiles, server, att, last, edited, moved, events, calls, opt,
                  provider, dir, cache, ops >>

\* The queue is empty: the records are stored and the call returns.
RefreshSave ==
  /\ rf.pc = "deps"
  /\ rf.dependencyQueue = << >>
  /\ modsFiles' = [modsFiles EXCEPT ![ModsInstance] =
                     saveModsState([rf.state EXCEPT !.resolved = rf.resolved], now)]
  /\ lastOp' = [NoOp EXCEPT !.op = "refresh", !.hasTarget = rf.hasTarget,
                            !.targetCatalogIds = rf.targetCatalogIds,
                            !.downloads = rf.downloads, !.lookups = rf.lookups,
                            !.overlap = rf.overlap,
                            !.answers = rf.answers, !.prevAnswers = rf.prevAnswers,
                            !.before = rf.before, !.prevOp = rf.prevOp,
                            !.prevHasTarget = rf.prevHasTarget, !.prevTarget = rf.prevTarget]
  /\ rf' = IdleRefresh
  /\ UNCHANGED << now, settings, metaFile, db, packsFiles, server, att, last, edited, moved, events, calls, opt,
                  provider, dir, cache, ops >>

\* while (dependencyQueue.length): one pass of the loop up to its next wait, or
\* the end of the call.
RefreshWalk ==
  IF rf.pc = "depdownload" THEN RefreshDepDownload
  ELSE IF rf.dependencyQueue # << >> THEN RefreshDep
  ELSE RefreshSave

\* ------------------------------------------------------- overlapping calls
\* The running refresh is suspended at a call of the provider: the catalog loop
\* waits for the lookup of an enabled entry it handles or for the download of its
\* file, or the dependency loop for the lookup of a ref it does not skip or for the
\* download of its file.
Suspended ==
  \/ /\ rf.pc = "catalog"
     /\ awaitsLookup(CATALOG[rf.i], rf.state, targetSet(rf.hasTarget, rf.targetCatalogIds))
  \/ rf.pc \in {"download", "depdownload"}
  \/ /\ rf.pc = "deps"
     /\ rf.dependencyQueue # << >>
     /\ ~skipDependency(trim(Head(rf.dependencyQueue)), rf.visitedProjects)

\* The provider starts answering differently for a project: between two calls, or
\* while a refresh or a plan waits for the provider.
Publish(projectId, response) ==
  /\ rf.pc \in {"idle", "plan"} \/ Suspended
  /\ ops < MaxOps
  /\ provider[projectId] # response
  /\ ops' = ops + 1
  /\ provider' = [provider EXCEPT ![projectId] = response]
  /\ lastOp' = IF rf.pc = "idle" THEN [NoOp EXCEPT !.op = "publish", !.prevOp = lastOp.op] ELSE lastOp
  /\ UNCHANGED << now, settings, metaFile, db, modsFiles, packsFiles, server, att, last, edited, moved, events, calls, opt,
                  dir, cache, rf >>

\* A setModEnabled call runs to completion while the refresh is suspended (one such
\* call per refresh).
SetModEnabledDuringRefresh(modId, enabled) ==
  /\ Suspended
  /\ ~rf.overlap.happened
  /\ ops < MaxOps
  /\ ops' = ops + 1
  /\ LET after == setModEnabled(modsFiles[ModsInstance], dir, cache, modId, enabled, now)
     IN /\ modsFiles' = [modsFiles EXCEPT ![ModsInstance] = after.file]
        /\ dir' = after.dir
        /\ rf' = [rf EXCEPT !.overlap = [happened |-> TRUE, modId |-> modId,
                                         requested |-> enabled, saved |-> after.file.state]]
  /\ UNCHANGED << now, settings, metaFile, db, packsFiles, server, att, last, edited, moved, events, calls, opt,
                  provider, cache, lastOp >>

\* ------------------------------------------------------- planModRefreshForInstance
\* parseMajor: the first run of digits of a version name as a number, or null.
parseMajor(version) ==
  IF \E i \in 1..Len(version) : version[i].isNum
  THEN version[CHOOSE i \in 1..Len(version) :
                 version[i].isNum /\ \A j \in 1..(i-1) : ~version[j].isNum].n
  ELSE NullNum

\* The elements of a sequence in the order of their first occurrence (new Set(...)).
Dedup(seq) ==
  LET firsts == {i \in 1..Len(seq) : \A j \in 1..(i-1) : seq[j] # seq[i]}
      RECURSIVE upto(_)
      upto(n) == IF n = 0 THEN << >>
                 ELSE IF n \in firsts THEN Append(upto(n-1), seq[n]) ELSE upto(n-1)
  IN upto(Len(seq))

addDepDiff(currentDeps, latestDeps) ==
  LET cur == Dedup(currentDeps)
      nxt == Dedup(latestDeps)
  IN [added |-> SelectSeq(nxt, LAMBDA x : x \notin Range(cur)),
      removed |-> SelectSeq(cur, LAMBDA x : x \notin Range(nxt))]

\* bits.join(sep)
RECURSIVE Join(_, _)
Join(bits, sep) ==
  IF bits = << >> THEN ""
  ELSE IF Len(bits) = 1 THEN bits[1]
  ELSE bits[1] \o sep \o Join(Tail(bits), sep)

\* normalizeChangelog of a version without a changelog.
NoChangelog == "No changelog provided."

\* A classifier that escalates a major version bump.
severityOfBreaking(unclean, majorBump, depsChanged) ==
  IF majorBump THEN "breaking" ELSE IF unclean \/ depsChanged THEN "caution" ELSE "safe"

\* The severity after the three checks of the loop body.
severityOf(unclean, majorBump, depsChanged) ==
  IF unclean \/ majorBump \/ depsChanged THEN "caution" ELSE "safe"

\* What one pass of the planning loop adds for an enabled entry: nothing, a blocked
\* entry or an update.
planEntry(mod, state, prov) ==
  LET has == HasKey(state.resolved, mod.id)
      current == IF has THEN GetKey(state.resolved, mod.id) ELSE NoResolved
      latest == prov[mod.projectId]
      sameByHash == current.sha1 # NoSha /\ latest.sha1 # NoSha /\ current.sha1 = latest.sha1
      sameByVersionAndFile ==
        /\ current.versionName # NoVersionName
        /\ current.versionName = latest.versionName
        /\ current.upstreamFileName # NoUpName
        /\ current.upstreamFileName = latest.fileName
      unclean == ~has \/ current.status # "ok"
      fromMajor == parseMajor(current.versionName)
      toMajor == parseMajor(latest.versionName)
      majorBump == fromMajor # NullNum /\ toMajor # NullNum /\ toMajor > fromMajor
      depDiff == addDepDiff(current.requiredProjectIds, RequiredOf(latest))
      depsChanged == depDiff.added # << >> \/ depDiff.removed # << >>
      reasonBits ==
        (IF unclean THEN << "Mod not currently resolved cleanly" >> ELSE << >>)
        \o (IF majorBump
            THEN << "Major version bump (" \o ToString(fromMajor) \o " -> " \o ToString(toMajor) \o ")" >>
            ELSE << >>)
        \o (IF depDiff.added # << >>
            THEN << "Dependency additions: " \o Join(depDiff.added, ", ") >> ELSE << >>)
        \o (IF depDiff.removed # << >>
            THEN << "Dependency removals: " \o Join(depDiff.removed, ", ") >> ELSE << >>)
      blockedFor(reason) ==
        [kind |-> "blocked", blocked |-> [id |-> mod.id, name |-> mod.name, reason |-> reason],
         update |-> << >>]
  IN IF latest.kind = "throws" THEN blockedFor(ResolveFailed)
     ELSE IF latest.kind = "none"
     THEN blockedFor("No compatible Fabric build found for Minecraft " \o McVersion \o ".")
     ELSE IF sameByHash \/ sameByVersionAndFile
     THEN [kind |-> "same", blocked |-> << >>, update |-> << >>]
     ELSE [kind |-> "update", blocked |-> << >>,
           update |-> [id |-> mod.id, name |-> mod.name,
                       severity |-> severityOf(unclean, majorBump, depsChanged),
                       fromVersion |-> current.versionName,
                       toVersion |-> latest.versionName,
                       changelog |-> NoChangelog,
                       dependencyAdded |-> depDiff.added,
                       dependencyRemoved |-> depDiff.removed,
                       reason |-> IF reasonBits = << >> THEN "Compatible update available"
                                  ELSE Join(reasonBits, " | ")]]

\* The catalog names in the order of localeCompare.
NamesSorted == << "Entity Model Features", "Entity Texture Features", "Fabric API",
                 "Iris Shaders", "Lithium", "Mod Menu", "Sodium" >>
nameRank(name) == CHOOSE i \in 1..Len(NamesSorted) : NamesSorted[i] = name

severityRank(severity) == CASE severity = "breaking" -> 3 [] severity = "caution" -> 2 [] OTHER -> 1

\* updates.sort: by severity rank descending, then by name.
sortUpdates(updates) ==
  LET before(a, b) ==
        \/ severityRank(a.severity) > severityRank(b.severity)
        \/ /\ severityRank(a.severity) = severityRank(b.severity)
           /\ nameRank(a.name) < nameRank(b.name)
      all == Range(updates)
  IN [i \in 1..Len(updates) |->
        CHOOSE u \in all : Cardinality({w \in all : before(w, u)}) = i - 1]

\* planModRefreshForInstance: the plan for a stored state and the provider's answers.
planModRefreshForInstance(state, prov, clock) ==
  LET enabledMods == SelectSeq(CATALOG, LAMBDA mod : mod.required \/ state.enabled[mod.id])
      passes == [i \in 1..Len(enabledMods) |-> planEntry(enabledMods[i], state, prov)]
      pick(kind) == SelectSeq(passes, LAMBDA out : out.kind = kind)
      updates == sortUpdates([i \in 1..Len(pick("update")) |-> pick("update")[i].update])
      count(severity) == Len(SelectSeq(updates, LAMBDA x : x.severity = severity))
  IN [checkedAt |-> clock,
      updates |-> updates,
      blocked |-> [i \in 1..Len(pick("blocked")) |-> pick("blocked")[i].blocked],
      counts |-> [safe |-> count("safe"), caution |-> count("caution"),
                  breaking |-> count("breaking")]]

\* The entries after the i-th that the planning loop asks the provider for.
planAwaits(state, i) ==
  {j \in (i+1)..Len(CATALOG) : CATALOG[j].required \/ state.enabled[CATALOG[j].id]}

\* Where the planning loop waits next after entry i, or past the catalog.
planNext(state, i) ==
  IF planAwaits(state, i) = {} THEN Len(CATALOG) + 1
  ELSE CHOOSE j \in planAwaits(state, i) : \A k \in planAwaits(state, i) : j <= k

\* A planning call that writes the state it loaded back to the state file.
PlanStartSaving ==
  /\ rf.pc = "idle"
  /\ ops < MaxOps
  /\ ops' = ops + 1
  /\ rf' = [IdleRefresh EXCEPT !.pc = "plan", !.i = planNext(Persisted, 0), !.state = Persisted,
                               !.before = Snapshot, !.prevOp = lastOp.op]
  /\ modsFiles' = [modsFiles EXCEPT ![ModsInstance] = saveModsState(Persisted, now)]
  /\ UNCHANGED << now, settings, metaFile, db, packsFiles, server, att, last, edited, moved, events, calls, opt,
                  provider, dir, cache, lastOp >>

\* A planModRefreshForInstance call starts: it reads the state file and asks the
\* provider for the first enabled entry.
PlanStart ==
  /\ rf.pc = "idle"
  /\ ops < MaxOps
  /\ ops' = ops + 1
  /\ rf' = [IdleRefresh EXCEPT !.pc = "plan", !.i = planNext(Persisted, 0), !.state = Persisted,
                               !.before = Snapshot, !.prevOp = lastOp.op]
  /\ UNCHANGED << now, settings, metaFile, db, modsFiles, packsFiles, server, att, last, edited, moved, events, calls, opt,
                  provider, dir, cache, lastOp >>

\* A lookup of the plan is answered: the loop goes on to the lookup of the next
\* enabled entry, or, after the last one, the plan is sorted, counted and returned.
PlanLookup ==
  /\ rf.pc = "plan"
  /\ LET answers == (CATALOG[rf.i].projectId :> provider[CATALOG[rf.i].projectId]) @@ rf.answers
         next == planNext(rf.state, rf.i)
     IN IF next <= Len(CATALOG)
        THEN /\ rf' = [rf EXCEPT !.i = next, !.answers = answers]
             /\ UNCHANGED lastOp
        ELSE /\ rf' = IdleRefresh
             /\ lastOp' = [NoOp EXCEPT !.op = "plan", !.before = rf.before, !.prevOp = rf.prevOp,
                                       !.answers = answers,
                                       !.plan = planModRefreshForInstance(rf.state, answers, now)]
  /\ UNCHANGED << now, settings, metaFile, db, modsFiles, packsFiles, server, att, last, edited, moved, events, calls, opt,
                  provider, dir, cache, ops >>

ModsInit ==
  /\ SyncInit
  /\ provider \in {ProviderWith(fabric, sodium) : fabric \in FabricResponses, sodium \in SodiumResponses}
  /\ ModsIdle

ModsNext ==
  \/ \E modId \in ToggleIds, enabled \in BOOLEAN : SetModEnabled(modId, enabled)
  \/ RefreshStart(FALSE, << >>)
  \/ \E targetCatalogIds \in TargetLists : RefreshStart(TRUE, targetCatalogIds)
  \/ RefreshEntry
  \/ RefreshDownload
  \/ RefreshWalkStart
  \/ RefreshWalk
  \/ PlanStart
  \/ PlanLookup
  \/ \E response \in FabricResponses : Publish("P7dR8mSH", response)
  \/ \E response \in SodiumResponses : Publish("AANobbMI", response)

ModsSpec == ModsInit /\ [][ModsNext]_vars

\* The mods operations with setModEnabled calls that overlap a refresh.
ModsRaceNext ==
  \/ \E modId \in CatalogToggleIds, enabled \in BOOLEAN : SetModEnabled(modId, enabled)
  \/ RefreshStart(FALSE, << >>)
  \/ \E targetCatalogIds \in TargetLists : RefreshStart(TRUE, targetCatalogIds)
  \/ RefreshEntry
  \/ RefreshDownload
  \/ RefreshWalkStart
  \/ RefreshWalk
  \/ \E modId \in CatalogToggleIds, enabled \in BOOLEAN : SetModEnabledDuringRefresh(modId, enabled)

ModsRaceSpec == ModsInit /\ [][ModsRaceNext]_vars

\* ------------------------------------------------------- applyOptimizer
PERF_MOD_IDS == << "sodium", "lithium", "ferrite-core", "modernfix", "c2me" >>

OptimizerProfiles == {"conservative", "balanced", "aggressive"}

\* os.totalmem() in MiB on the machines the launcher runs on.
RamSizes == {4096, 16384}

\* The instance ids applyOptimizer is called with: the instance, and one that is gone.
OptimizerInstanceIds == {ModsInstance, "gone"}

\* calcRecommendedMemoryMb(totalRamMb, profile)
calcRecommendedMemoryMb(totalRamMb, profile) ==
  LET reserveMb == 2048
      cap == IF totalRamMb - reserveMb > 2048 THEN totalRamMb - reserveMb ELSE 2048
      raw == IF profile = "conservative" THEN (totalRamMb * 25) \div 100
             ELSE IF profile = "balanced" THEN (totalRamMb * 33) \div 100
             ELSE (totalRamMb * 50) \div 100
      floored == (raw \div 256) * 256
      capped == IF cap < floored THEN cap ELSE floored
  IN IF capped > 2048 THEN capped ELSE 2048

\* jvmArgsForProfile(profile)
jvmArgsForProfile(profile) ==
  IF profile = "aggressive"
  THEN [gc |-> "ZGC",
        args |-> "-XX:+UnlockExperimentalVMOptions -XX:+UseZGC -XX:+ZGenerational -XX:+AlwaysPreTouch -XX:+DisableExplicitGC"]
  ELSE [gc |-> "G1GC",
        args |-> IF profile = "conservative"
                 THEN "-XX:+UseG1GC -XX:MaxGCPauseMillis=75 -XX:+ParallelRefProcEnabled"
                 ELSE "-XX:+UseG1GC -XX:MaxGCPauseMillis=50 -XX:+ParallelRefProcEnabled -XX:+UnlockExperimentalVMOptions"]

\* buildOptimizerPreview(profile) on a machine with the given memory.
buildOptimizerPreview(profile, totalRamMb) ==
  LET jvm == jvmArgsForProfile(profile)
  IN [profile |-> profile,
      memoryMb |-> calcRecommendedMemoryMb(totalRamMb, profile),
      jvmArgs |-> jvm.args,
      gc |-> jvm.gc,
      modsToEnable |-> IF profile = "conservative"
                       THEN SelectSeq(PERF_MOD_IDS, LAMBDA x : x # "c2me")
                       ELSE PERF_MOD_IDS]

\* updateInstance(instanceId, {memoryMb, jvmArgsOverride, optimizerBackup}) with
\* backup = {memoryMb: Number(inst.memoryMb || 4096), jvmArgsOverride: inst.jvmArgsOverride ?? null}.
optimizerUpdate(config, preview) ==
  [memoryMb |-> preview.memoryMb,
   jvmArgsOverride |-> preview.jvmArgs,
   optimizerBackup |-> [present |-> TRUE,
                        memoryMb |-> IF config.memoryMb = 0 THEN 4096 ELSE config.memoryMb,
                        jvmArgsOverride |-> config.jvmArgsOverride]]

\* restoreOptimizerDefaults: the settings updateInstance stores from a backup.
optimizerRestore(backup) ==
  [memoryMb |-> IF backup.memoryMb = 0 THEN 4096 ELSE backup.memoryMb,
   jvmArgsOverride |-> backup.jvmArgsOverride,
   optimizerBackup |-> NoBackup]

\* The instance db has an instance of that id.
instanceFound(instanceId) == \E i \in 1..Len(db.instances) : db.instances[i].id = instanceId

\* Other calls run only where a running refresh waits for the provider.
AtAwait == rf.pc = "idle" \/ Suspended

\* One pass of for (const modId of PERF_MOD_IDS) await setModEnabled(instanceId,
\* modId, shouldEnable), made by the call whose locals are in call: setModEnabled
\* runs up to its return and the loop waits for its promise, or it throws on an id
\* outside the catalog and applyOptimizer rejects.
OptimizerPassWrites(call, i) ==
  IF PERF_MOD_IDS[i] \notin CatalogIds
  THEN /\ opt' = [call EXCEPT !.pc = "idle", !.error = "Unknown mod", !.modCalls = i]
       /\ UNCHANGED << modsFiles, dir >>
  ELSE LET after == setModEnabled(modsFiles[ModsInstance], dir, cache, PERF_MOD_IDS[i],
                                  PERF_MOD_IDS[i] \in Range(call.modsToEnable), now)
       IN /\ opt' = [call EXCEPT !.pc = "loop", !.modCalls = i]
          /\ modsFiles' = [modsFiles EXCEPT ![ModsInstance] = after.file]
          /\ dir' = after.dir

\* applyOptimizer(instanceId, profile) from its entry to its first wait: the throw
\* for a missing instance, or updateInstance and the first pass of the loop.
ApplyOptimizer(instanceId, profile, totalRamMb) ==
  LET preview == buildOptimizerPreview(profile, totalRamMb)
      call == [opt EXCEPT !.before = opt.config, !.instanceId = instanceId,
                          !.found = instanceFound(instanceId),
                          !.profile = profile, !.modsToEnable = preview.modsToEnable,
                          !.error = NullStr, !.modCalls = 0, !.refreshReached = FALSE]
  IN /\ opt.pc = "idle"
     /\ AtAwait
     /\ ops < MaxOps
     /\ ops' = ops + 1
     /\ lastOp' = [NoOp EXCEPT !.op = "optimize", !.before = Snapshot, !.prevOp = lastOp.op]
     /\ IF ~instanceFound(instanceId)
        THEN /\ opt' = [call EXCEPT !.error = "Instance not found"]
             /\ UNCHANGED << modsFiles, dir >>
        ELSE OptimizerPassWrites([call EXCEPT !.config = optimizerUpdate(opt.config, preview)], 1)
     /\ UNCHANGED << now, settings, metaFile, db, packsFiles, server, att, last, edited, moved, events, calls,
                     provider, cache, rf >>

\* applyOptimizer goes on after the wait of a pass: the next pass, or after the last
\* one the closing refreshModsForInstance up to its first wait.
OptimizerPass ==
  /\ opt.pc = "loop"
  /\ rf.pc = "idle" \/ (Suspended /\ opt.modCalls < Len(PERF_MOD_IDS))
  /\ lastOp' = [NoOp EXCEPT !.op = "optimize", !.before = lastOp.before, !.prevOp = lastOp.prevOp]
  /\ IF opt.modCalls < Len(PERF_MOD_IDS)
     THEN /\ OptimizerPassWrites(opt, opt.modCalls + 1)
          /\ UNCHANGED << now, rf >>
     ELSE /\ opt' = [opt EXCEPT !.pc = "idle", !.refreshReached = TRUE]
          /\ now' = now + 1
          /\ rf' = [IdleRefresh EXCEPT !.pc = "catalog", !.i = 1,
                                       !.state = loadModsState(modsFiles, ModsInstance),
                                       !.before = Snapshot, !.prevOp = "optimize"]
          /\ UNCHANGED << modsFiles, dir >>
  /\ UNCHANGED << settings, metaFile, db, packsFiles, server, att, last, edited, moved, events, calls,
                  provider, cache, ops >>

\* restoreOptimizerDefaults(instanceId): throws for a missing instance or one without
\* a backup, else stores the backed-up settings and clears the backup.
RestoreOptimizerDefaults(instanceId) ==
  LET backup == opt.config.optimizerBackup
  IN /\ AtAwait
     /\ ops < MaxOps
     /\ ops' = ops + 1
     /\ lastOp' = [NoOp EXCEPT !.op = "restore", !.before = Snapshot, !.prevOp = lastOp.op]
     /\ opt' = IF ~instanceFound(instanceId)
               THEN [opt EXCEPT !.restored = "Instance not found"]
               ELSE IF ~backup.present
               THEN [opt EXCEPT !.restored = "No optimizer backup found for this instance"]
               ELSE [opt EXCEPT !.restored = "true", !.config = optimizerRestore(backup)]
     /\ UNCHANGED << now, settings, metaFile, db, modsFiles, packsFiles, server, att, last, edited, moved,
                     events, calls, provider, dir, cache, rf >>

\* The mods operations of one instance with applyOptimizer and
\* restoreOptimizerDefaults calls among them.
OptimizerNext ==
  \/ \E modId \in CatalogToggleIds, enabled \in BOOLEAN : SetModEnabled(modId, enabled)
  \/ RefreshStart(FALSE, << >>)
  \/ RefreshEntry
  \/ RefreshDownload
  \/ RefreshWalkStart
  \/ RefreshWalk
  \/ \E instanceId \in OptimizerInstanceIds, profile \in OptimizerProfiles, totalRamMb \in RamSizes :
       ApplyOptimizer(instanceId, profile, totalRamMb)
  \/ OptimizerPass
  \/ \E instanceId \in OptimizerInstanceIds : RestoreOptimizerDefaults(instanceId)

OptimizerSpec == ModsInit /\ [][OptimizerNext]_vars

\* ------------------------------------------------------- syncCloudNow
\* What a returning call records about itself next to its result.
Trace(a, remote, fetched) ==
  [NoResult EXCEPT !.firstSync = a.firstSync, !.fetched = fetched,
                   !.hashEqual = fetched /\ hashSnapshot(a.localSnapshot) = hashSnapshot(remote.payload),
                   !.remoteChanged = fetched /\ remoteChangedSinceLastSync(a.meta, remote),
                   !.localChanged = localChangedSinceLastSync(a.meta, hashSnapshot(a.localSnapshot)),
                   !.putIssued = a.put.issued]

\* The success record written by the up-to-date, pull and push branches.
SuccessMeta(meta, status, revision, hash) ==
  [meta EXCEPT !.lastSyncedAt = now, !.lastStatus = status, !.lastError = NullStr,
               !.lastRemoteRevision = revision, !.lastSnapshotHash = hash]

\* Entry: read the metadata, capture the local snapshot, send the GET.
SyncStart(p, request, serialized) ==
  LET input == [settings |-> settings, policy |-> request.policy,
                resolveConflict |-> request.resolveConflict]
  IN /\ att[p].pc = "idle"
     /\ serialized => \A q \in Procs : att[q].pc = "idle"
     /\ att' = [att EXCEPT ![p] = [IdleAtt EXCEPT
                   !.pc = "get", !.input = input, !.meta = readLocalSyncState(metaFile),
                   !.firstSync = ~metaFile.exists,
                   !.localSnapshot = collectLocalSnapshot(input.settings, db, modsFiles, packsFiles, now),
                   !.editedBefore = edited, !.moved = moved]]
     /\ calls < MaxCalls
     /\ calls' = calls + 1
     /\ edited' = FALSE
     /\ UNCHANGED << modsVars, now, settings, metaFile, db, modsFiles, packsFiles, server, last, moved, events >>

\* A catch that falls back to DEFAULT_STATE instead of the metadata read at entry.
SyncCatchReset(p, msg) ==
  LET a == att[p]
      next == [readLocalSyncState(NoMetaFile) EXCEPT !.lastStatus = "error", !.lastError = msg]
  IN /\ metaFile' = [exists |-> TRUE, state |-> next]
     /\ last' = [Trace(a, a.remote, a.pc = "put") EXCEPT
                    !.status = "error", !.ok = FALSE, !.message = msg,
                    !.lastSyncedAt = next.lastSyncedAt,
                    !.lastRemoteRevision = next.lastRemoteRevision]
     /\ att' = [att EXCEPT ![p] = IdleAtt]
     /\ UNCHANGED << modsVars, now, settings, db, modsFiles, packsFiles, server, edited, moved, events, calls >>

\* catch: the GET or the PUT threw.
SyncCatch(p, msg) ==
  LET a == att[p]
      next == [a.meta EXCEPT !.lastStatus = "error", !.lastError = msg]
  IN /\ metaFile' = [exists |-> TRUE, state |-> next]
     /\ last' = [Trace(a, a.remote, a.pc = "put") EXCEPT
                    !.status = "error", !.ok = FALSE, !.message = msg,
                    !.lastSyncedAt = next.lastSyncedAt,
                    !.lastRemoteRevision = next.lastRemoteRevision]
     /\ att' = [att EXCEPT ![p] = IdleAtt]
     /\ UNCHANGED << modsVars, now, settings, db, modsFiles, packsFiles, server, edited, moved, events, calls >>

SyncGetFail(p, msg) ==
  /\ att[p].pc = "get"
  /\ SyncCatch(p, msg)

\* The GET answered and the hashes are equal.
SyncUpToDate(p) ==
  LET a == att[p]
      remote == fetchRemoteSyncState(server)
      d == syncDecision(a.meta, a.input, a.localSnapshot, remote)
      next == SuccessMeta(a.meta, "up-to-date", remote.revision, hashSnapshot(a.localSnapshot))
  IN /\ a.pc = "get"
     /\ d.act = "up-to-date"
     /\ metaFile' = [exists |-> TRUE, state |-> next]
     /\ last' = [Trace(a, remote, TRUE) EXCEPT
                    !.status = "up-to-date", !.ok = TRUE, !.message = d.message,
                    !.lastSyncedAt = next.lastSyncedAt,
                    !.lastRemoteRevision = next.lastRemoteRevision]
     /\ att' = [att EXCEPT ![p] = IdleAtt]
     /\ moved' = FALSE
     /\ UNCHANGED << modsVars, now, settings, db, modsFiles, packsFiles, server, edited, events, calls >>

\* The GET answered and the decision is to apply the remote snapshot.
SyncPull(p) ==
  LET a == att[p]
      remote == fetchRemoteSyncState(server)
      d == syncDecision(a.meta, a.input, a.localSnapshot, remote)
      applied == applyRemoteSnapshot(remote.payload, db, modsFiles, packsFiles, now)
      next == SuccessMeta(a.meta, "pulled", remote.revision, hashSnapshot(remote.payload))
  IN /\ a.pc = "get"
     /\ d.act = "pull"
     /\ db' = applied.db
     /\ modsFiles' = applied.mods
     /\ packsFiles' = applied.packs
     /\ metaFile' = [exists |-> TRUE, state |-> next]
     /\ last' = [Trace(a, remote, TRUE) EXCEPT
                    !.status = "pulled", !.ok = TRUE, !.message = d.message,
                    !.lastSyncedAt = next.lastSyncedAt,
                    !.lastRemoteRevision = next.lastRemoteRevision,
                    !.hasPatch = TRUE, !.settingsPatch = applied.settingsPatch,
                    !.applied = TRUE]
     /\ att' = [att EXCEPT ![p] = IdleAtt]
     /\ moved' = FALSE
     /\ UNCHANGED << modsVars, now, settings, server, edited, events, calls >>

\* A PUT whose baseRevision is the stored lastRemoteRevision, not the fetched one.
SyncPushSendStaleBase(p) ==
  LET a == att[p]
      remote == fetchRemoteSyncState(server)
      d == syncDecision(a.meta, a.input, a.localSnapshot, remote)
  IN /\ a.pc = "get"
     /\ d.act = "push"
     /\ att' = [att EXCEPT ![p] = [a EXCEPT !.pc = "put", !.remote = remote, !.message = d.message,
                    !.put = [issued |-> TRUE, baseRevision |-> a.meta.lastRemoteRevision,
                             payload |-> a.localSnapshot]]]
     /\ moved' = FALSE
     /\ UNCHANGED << modsVars, now, settings, metaFile, db, modsFiles, packsFiles, server, last, edited, events, calls >>

\* The GET answered and the decision is to upload: the PUT is sent.
SyncPushSend(p) ==
  LET a == att[p]
      remote == fetchRemoteSyncState(server)
      d == syncDecision(a.meta, a.input, a.localSnapshot, remote)
  IN /\ a.pc = "get"
     /\ d.act = "push"
     /\ att' = [att EXCEPT ![p] = [a EXCEPT !.pc = "put", !.remote = remote, !.message = d.message,
                    !.put = [issued |-> TRUE, baseRevision |-> remote.revision,
                             payload |-> a.localSnapshot]]]
     /\ moved' = FALSE
     /\ UNCHANGED << modsVars, now, settings, metaFile, db, modsFiles, packsFiles, server, last, edited, events, calls >>

\* The endpoint stores the payload of the PUT under its next revision; the answer
\* is on its way and the caller still waits at `await pushRemoteSyncState(...)`.
SyncPutStored(p) ==
  LET a == att[p]
  IN /\ a.pc = "put"
     /\ server' = [revision |-> server.revision + 1, hasPayload |-> TRUE, payload |-> a.put.payload]
     /\ att' = [att EXCEPT ![p] = [a EXCEPT !.pc = "stored",
                                            !.pushed = [revision |-> server.revision + 1]]]
     /\ moved' = FALSE
     /\ UNCHANGED << modsVars, now, settings, metaFile, db, modsFiles, packsFiles, last, edited, events, calls >>

\* The PUT answered: the caller records the revision the endpoint returned.
SyncPushDone(p) ==
  LET a == att[p]
      pushed == a.pushed
      next == SuccessMeta(a.meta, "pushed", pushed.revision, hashSnapshot(a.localSnapshot))
  IN /\ a.pc = "stored"
     /\ server' = server
     /\ metaFile' = [exists |-> TRUE, state |-> next]
     /\ last' = [Trace(a, a.remote, TRUE) EXCEPT
                    !.status = "pushed", !.ok = TRUE, !.message = a.message,
                    !.lastSyncedAt = next.lastSyncedAt,
                    !.lastRemoteRevision = next.lastRemoteRevision]
     /\ att' = [att EXCEPT ![p] = IdleAtt]
     /\ UNCHANGED << modsVars, now, settings, db, modsFiles, packsFiles, edited, moved, events, calls >>

\* The PUT threw before the endpoint stored anything.
SyncPutFail(p, msg) ==
  /\ att[p].pc = "put"
  /\ SyncCatch(p, msg)

\* The GET answered and the policy leaves the decision to the caller.
SyncConflict(p) ==
  LET a == att[p]
      remote == fetchRemoteSyncState(server)
      d == syncDecision(a.meta, a.input, a.localSnapshot, remote)
      conflictNext == [a.meta EXCEPT !.lastStatus = "conflict",
                          !.lastError = "Sync conflict detected. Choose local or cloud state.",
                          !.lastRemoteRevision = remote.revision]
  IN /\ a.pc = "get"
     /\ d.act = "conflict"
     /\ metaFile' = [exists |-> TRUE, state |-> conflictNext]
     /\ last' = [Trace(a, remote, TRUE) EXCEPT
                    !.status = "conflict", !.ok = FALSE, !.message = d.message,
                    !.lastSyncedAt = a.meta.lastSyncedAt,
                    !.lastRemoteRevision = remote.revision]
     /\ att' = [att EXCEPT ![p] = IdleAtt]
     /\ moved' = FALSE
     /\ UNCHANGED << modsVars, now, settings, db, modsFiles, packsFiles, server, edited, events, calls >>

\* ------------------------------------------------------- environment
Tick ==
  /\ events < MaxEvents
  /\ events' = events + 1
  /\ now' = now + 1
  /\ UNCHANGED << modsVars, settings, metaFile, db, modsFiles, packsFiles, server, att, last, edited, moved, calls >>

\* Another device uploads a payload: the endpoint's revision advances.
OtherDevicePush(payload) ==
  /\ events < MaxEvents
  /\ events' = events + 1
  /\ server' = [revision |-> server.revision + 1, hasPayload |-> TRUE, payload |-> payload]
  /\ moved' = TRUE
  /\ UNCHANGED << modsVars, now, settings, metaFile, db, modsFiles, packsFiles, att, last, edited, calls >>

\* A local edit by the user: the budget, the edit mark.
LocalEdit ==
  /\ events < MaxEvents
  /\ events' = events + 1
  /\ edited' = TRUE

\* The user selects another instance.
SetActiveInstance(id) ==
  /\ \E i \in 1..Len(db.instances) : db.instances[i].id = id
  /\ id # db.activeInstanceId
  /\ LocalEdit
  /\ db' = [db EXCEPT !.activeInstanceId = id, !.updatedAt = now]
  /\ UNCHANGED << modsVars, now, settings, metaFile, modsFiles, packsFiles, server, att, last, moved, calls >>

\* The user flips an instance's sync switch.
SetInstanceSync(i) ==
  /\ i \in 1..Len(db.instances)
  /\ LocalEdit
  /\ db' = [db EXCEPT !.instances[i].syncEnabled = ~db.instances[i].syncEnabled, !.updatedAt = now]
  /\ UNCHANGED << modsVars, now, settings, metaFile, modsFiles, packsFiles, server, att, last, moved, calls >>

\* The user changes a setting.
EditSettings(blob) ==
  /\ blob # settings
  /\ LocalEdit
  /\ settings' = blob
  /\ UNCHANGED << modsVars, now, metaFile, db, modsFiles, packsFiles, server, att, last, moved, calls >>

Next ==
  \/ \E p \in SeqProcs, request \in SyncRequests : SyncStart(p, request, TRUE)
  \/ \E p \in SeqProcs, msg \in ErrorMessages : SyncGetFail(p, msg)
  \/ \E p \in SeqProcs : SyncUpToDate(p)
  \/ \E p \in SeqProcs : SyncPull(p)
  \/ \E p \in SeqProcs : SyncPushSend(p)
  \/ \E p \in SeqProcs : SyncPutStored(p)
  \/ \E p \in SeqProcs : SyncPushDone(p)
  \/ \E p \in SeqProcs, msg \in ErrorMessages : SyncPutFail(p, msg)
  \/ \E p \in SeqProcs : SyncConflict(p)
  \/ Tick
  \/ \E payload \in RemotePayloads : OtherDevicePush(payload)
  \/ \E id \in InstIds : SetActiveInstance(id)
  \/ \E i \in 1..2 : SetInstanceSync(i)
  \/ \E blob \in SettingsInputs : EditSettings(blob)

Spec == Init /\ [][Next]_vars

\* Calls that overlap: a caller starts while another call is suspended on its GET or PUT.
OverlapNext ==
  \/ \E p \in Procs, request \in SyncRequests : SyncStart(p, request, FALSE)
  \/ \E p \in Procs, msg \in ErrorMessages : SyncGetFail(p, msg)
  \/ \E p \in Procs : SyncUpToDate(p)
  \/ \E p \in Procs : SyncPull(p)
  \/ \E p \in Procs : SyncPushSend(p)
  \/ \E p \in Procs : SyncPutStored(p)
  \/ \E p \in Procs : SyncPushDone(p)
  \/ \E p \in Procs, msg \in ErrorMessages : SyncPutFail(p, msg)
  \/ \E p \in Procs : SyncConflict(p)
  \/ Tick
  \/ \E payload \in RemotePayloads : OtherDevicePush(payload)

OverlapSpec == Init /\ [][OverlapNext]_vars

\* ------------------------------------------------------- steps of a call
\* The remote state the GET hands to caller p when it answers in this step.
Fetched == fetchRemoteSyncState(server)

\* The GET of caller p answers in this step: the call goes on to its PUT or returns.
GetAnswers(p) ==
  /\ att[p].pc = "get"
  /\ att'[p].pc = "put" \/ (att'[p].pc = "idle" /\ last'.fetched)

\* The PUT of caller p answers in this step.
PutAnswers(p) == att[p].pc = "stored" /\ att'[p].pc = "idle" /\ last'.ok

\* The GET or the PUT of caller p throws in this step.
Throws(p) ==
  \/ att[p].pc = "get" /\ att'[p].pc = "idle" /\ ~last'.fetched
  \/ att[p].pc = "put" /\ att'[p].pc = "idle" /\ server' = server

\* Caller p's call returns in this step with the given status.
Returns(p, status) == att[p].pc # "idle" /\ att'[p].pc = "idle" /\ last'.status = status

\* Caller p sends its PUT in this step, with the given result message pending.
PutSent(p, message) == att[p].pc = "get" /\ att'[p].pc = "put" /\ att'[p].message = message

HashesEqual(p) == hashSnapshot(att[p].localSnapshot) = hashSnapshot(Fetched.payload)

\* The step writes neither the instance database nor a content-state file.
NoLocalApply == db' = db /\ modsFiles' = modsFiles /\ packsFiles' = packsFiles

\* The step of caller p is the one chooseConflictPolicy selects.
PolicyApplied(p) ==
  LET chosen == chooseConflictPolicy(EffectivePolicy(att[p].input), att[p].localSnapshot, Fetched.payload)
  IN /\ chosen = "local" => PutSent(p, "Conflict resolved using local state.")
     /\ chosen = "remote" => Returns(p, "pulled") /\ last'.message = "Conflict resolved using cloud state."
     /\ chosen = "conflict" => Returns(p, "conflict")

\* ------------------------------------------------------- claims
\* C1. Sync symmetry: when the hash of the local snapshot captured at entry equals
\* the hash of the fetched remote payload, the call returns up-to-date in that step,
\* sends no PUT and applies nothing locally, whatever the policy, the resolveConflict
\* flag and the stored metadata are.
C1_SyncSymmetry ==
  [][\A p \in Procs :
       (GetAnswers(p) /\ HashesEqual(p))
         => /\ Returns(p, "up-to-date")
            /\ last'.ok /\ ~last'.putIssued /\ ~last'.applied
            /\ server' = server
            /\ NoLocalApply]_vars

\* A call found equal hashes against a remote state that holds an upload.
C1_Witness ==
  /\ last.status = "up-to-date" /\ last.hashEqual
  /\ server.revision > 0
  /\ calls = 2

\* C2. Two successive calls, the first one successful, another device uploading in
\* between and no local edit in between: the second call returns pulled and stores
\* the new remote revision as lastRemoteRevision.
C2_SecondAttemptPulls ==
  [][\A p \in Procs :
       (/\ GetAnswers(p)
        /\ last.status \in {"pushed", "up-to-date"}
        /\ att[p].moved
        /\ ~att[p].editedBefore
        /\ ~att[p].input.resolveConflict
        /\ ~HashesEqual(p))
         => /\ Returns(p, "pulled")
            /\ metaFile'.state.lastRemoteRevision = Fetched.revision]_vars

\* C3. A call that reports conflict leaves the endpoint and the local data alone,
\* and the next call under policy ask without resolveConflict, with no upload and no
\* local edit in between, reports conflict again and neither pushes nor pulls.
C3_ConflictStaysUntilResolved ==
  [][\A p \in Procs :
       /\ Returns(p, "conflict") => (server' = server /\ NoLocalApply /\ ~last'.putIssued)
       /\ (/\ GetAnswers(p)
           /\ last.status = "conflict"
           /\ ~moved
           /\ ~att[p].editedBefore
           /\ EffectivePolicy(att[p].input) = "ask"
           /\ ~att[p].input.resolveConflict)
            => (Returns(p, "conflict") /\ server' = server /\ NoLocalApply)]_vars

\* C4 as stated. On a first call (no metadata file) whose hashes differ, the outcome
\* is the conflict policy's: under ask the call reports conflict.
C4_FirstSyncAppliesPolicy ==
  [][\A p \in Procs :
       (GetAnswers(p) /\ att[p].firstSync /\ ~HashesEqual(p) /\ ~att[p].input.resolveConflict)
         => PolicyApplied(p)]_vars

\* C4 amended. On a first call whose hashes differ and that carries no resolveConflict,
\* the conflict policy decides exactly when the fetched remote revision is not 0;
\* against revision 0 the call pushes directly.
C4_FirstSyncByRevision ==
  [][\A p \in Procs :
       (GetAnswers(p) /\ att[p].firstSync /\ ~HashesEqual(p) /\ ~att[p].input.resolveConflict)
         => IF Fetched.revision # 0
            THEN PolicyApplied(p)
            ELSE PutSent(p, "Pushed local state to cloud.")]_vars

\* A first call met an upload of another device and reported conflict.
C4_Witness ==
  /\ last.firstSync /\ last.status = "conflict"
  /\ last.remoteChanged /\ last.localChanged
  /\ server.revision # 0

\* C5. A call without resolveConflict whose hashes differ follows the two change
\* flags: remote changed and local unchanged pulls without a PUT; remote unchanged and
\* local changed sends one PUT, applies nothing locally and returns pushed when the
\* PUT answers; both flags or neither hands the decision to the conflict policy.
C5_FlagsDecide ==
  [][\A p \in Procs :
       LET remoteChanged == remoteChangedSinceLastSync(att[p].meta, Fetched)
           localChanged == localChangedSinceLastSync(att[p].meta, hashSnapshot(att[p].localSnapshot))
       IN /\ (GetAnswers(p) /\ ~HashesEqual(p) /\ ~att[p].input.resolveConflict)
               => /\ (remoteChanged /\ ~localChanged)
                       => /\ Returns(p, "pulled") /\ last'.message = "Pulled latest cloud state."
                          /\ ~last'.putIssued /\ server' = server
                  /\ (~remoteChanged /\ localChanged)
                       => /\ PutSent(p, "Pushed local state to cloud.")
                          /\ NoLocalApply /\ server' = server
                  /\ (remoteChanged <=> localChanged) => PolicyApplied(p)
          /\ (att[p].pc = "put" /\ att'[p].pc = "stored")
               => /\ server'.revision = server.revision + 1
                  /\ NoLocalApply
          /\ PutAnswers(p)
               => /\ Returns(p, "pushed")
                  /\ server' = server
                  /\ NoLocalApply]_vars

\* A call pulled on the flags alone: the remote revision had moved, the local hash had not.
C5_Witness ==
  /\ last.status = "pulled" /\ last.message = "Pulled latest cloud state."
  /\ last.remoteChanged /\ ~last.localChanged
  /\ ~last.putIssued

\* C6. When the conflict policy decides: prefer-local pushes, prefer-cloud pulls,
\* newer-wins pushes exactly when the larger of the local settingsUpdatedAt and
\* instancesUpdatedAt is at least the larger of the remote two, and pulls otherwise.
C6_PolicyOutcome ==
  [][\A p \in Procs :
       LET a == att[p]
           remoteChanged == remoteChangedSinceLastSync(a.meta, Fetched)
           localChanged == localChangedSinceLastSync(a.meta, hashSnapshot(a.localSnapshot))
           localEdge == MaxOf({a.localSnapshot.settingsUpdatedAt, a.localSnapshot.instancesUpdatedAt})
           remoteEdge == MaxOf({Fetched.payload.settingsUpdatedAt, Fetched.payload.instancesUpdatedAt})
           pushes == att'[p].pc = "put" /\ NoLocalApply
           pulls == Returns(p, "pulled") /\ ~last'.putIssued
       IN (/\ GetAnswers(p) /\ ~HashesEqual(p)
           /\ ~(a.input.resolveConflict /\ a.input.policy \in {"prefer-local", "prefer-cloud"})
           /\ remoteChanged <=> localChanged)
            => /\ a.input.policy = "prefer-local" => pushes
               /\ a.input.policy = "prefer-cloud" => pulls
               /\ a.input.policy = "newer-wins" => IF localEdge >= remoteEdge THEN pushes ELSE pulls]_vars

\* newer-wins met a tie and is uploading the local snapshot.
C6_Witness ==
  \E p \in Procs :
    /\ att[p].pc = "put" /\ att[p].input.policy = "newer-wins"
    /\ att[p].message = "Conflict resolved using local state."
    /\ MaxOf({att[p].localSnapshot.settingsUpdatedAt, att[p].localSnapshot.instancesUpdatedAt})
         = MaxOf({att[p].remote.payload.settingsUpdatedAt, att[p].remote.payload.instancesUpdatedAt})

\* Two settings blobs with the same allow-listed members.
SameAllowListed(s1, s2) ==
  \A key \in AllowSet \cap (Keys(s1) \cup Keys(s2)) :
    /\ HasKey(s1, key) <=> HasKey(s2, key)
    /\ HasKey(s1, key) => GetKey(s1, key) = GetKey(s2, key)

\* C7. The settings inside every PUT payload and every settingsPatch of a pull hold
\* allow-listed keys only, and a settings blob that differs from the caller's only
\* outside the allow-list yields the same PUT payload settings.
C7_AllowListOnly ==
  /\ \A p \in Procs :
       att[p].put.issued
         => /\ Keys(att[p].put.payload.settings) \subseteq AllowSet
            /\ \A other \in SettingsInputs :
                 SameAllowListed(other, att[p].input.settings)
                   => collectLocalSnapshot(other, db, modsFiles, packsFiles, now).settings
                        = att[p].put.payload.settings
  /\ last.hasPatch => Keys(last.settingsPatch) \subseteq AllowSet

\* A pull returned a patch of a remote blob that holds a foreign key, and a PUT is in
\* flight for a caller blob that holds one.
C7_Witness ==
  /\ last.hasPatch /\ last.settingsPatch # << >>
  /\ ~(Keys(server.payload.settings) \subseteq AllowSet)
  /\ \E p \in Procs :
       /\ att[p].put.issued
       /\ ~(Keys(att[p].input.settings) \subseteq AllowSet)
       /\ att[p].put.payload.settings # << >>

\* C8. A GET or PUT that throws ends the call with ok=false, status error and the
\* error's message; the metadata file then reads lastStatus error and that message
\* as lastError, and lastSyncedAt, lastRemoteRevision and lastSnapshotHash read as
\* they did before the call.
C8_ErrorKeepsBaseline ==
  [][\A p \in Procs :
       Throws(p)
         => /\ Returns(p, "error") /\ ~last'.ok
            /\ last'.message \in ErrorMessages
            /\ metaFile'.exists
            /\ readLocalSyncState(metaFile').lastStatus = "error"
            /\ readLocalSyncState(metaFile').lastError = last'.message
            /\ readLocalSyncState(metaFile').lastSyncedAt = readLocalSyncState(metaFile).lastSyncedAt
            /\ readLocalSyncState(metaFile').lastRemoteRevision = readLocalSyncState(metaFile).lastRemoteRevision
            /\ readLocalSyncState(metaFile').lastSnapshotHash = readLocalSyncState(metaFile).lastSnapshotHash
            /\ server' = server /\ NoLocalApply]_vars

\* A call failed after an earlier one had stored a baseline.
C8_Witness ==
  /\ last.status = "error" /\ ~last.ok
  /\ metaFile.state.lastStatus = "error"
  /\ metaFile.state.lastSnapshotHash # NoHash
  /\ metaFile.state.lastRemoteRevision > 0

\* C9. Every PUT carries the local snapshot captured at entry and, as baseRevision,
\* the remote revision fetched in the same call; when it answers, lastRemoteRevision
\* is the revision the endpoint returned and lastSnapshotHash the hash of the
\* snapshot that was uploaded.
C9_PushBaseline ==
  [][\A p \in Procs :
       /\ (att[p].pc = "get" /\ att'[p].pc = "put")
            => /\ att'[p].put.issued
               /\ att'[p].put.baseRevision = Fetched.revision
               /\ att'[p].put.payload = att[p].localSnapshot
       /\ (att[p].pc = "put" /\ att'[p].pc = "stored")
            => /\ server'.payload = att[p].put.payload
               /\ att'[p].pushed.revision = server'.revision
       /\ PutAnswers(p)
            => /\ metaFile'.state.lastStatus = "pushed"
               /\ metaFile'.state.lastRemoteRevision = att[p].pushed.revision
               /\ last'.lastRemoteRevision = att[p].pushed.revision
               /\ metaFile'.state.lastSnapshotHash = hashSnapshot(att[p].put.payload)]_vars

\* A push went through against a remote revision other than the stored one.
C9_Witness ==
  /\ last.status = "pushed" /\ last.putIssued
  /\ last.remoteChanged
  /\ metaFile.state.lastRemoteRevision = server.revision
  /\ metaFile.state.lastSnapshotHash = hashSnapshot(server.payload)

\* The pointer the fallback chain names: the remote one if merged, else the
\* previously active one if merged, else the first merged instance, else null.
ExpectedActive(remoteActive, previousActive, merged) ==
  LET ids == {merged[i].id : i \in 1..Len(merged)}
  IN IF remoteActive \in ids THEN remoteActive
     ELSE IF previousActive \in ids THEN previousActive
     ELSE IF Len(merged) > 0 THEN merged[1].id
     ELSE NullStr

\* C10. After a pull the active-instance pointer is the remote snapshot's if that
\* instance is in the merged set, else the previously active local instance if it is
\* in the merged set, else the first merged instance, else null.
C10_ActivePointer ==
  [][\A p \in Procs :
       Returns(p, "pulled")
         => LET applied == applyRemoteSnapshot(Fetched.payload, db, modsFiles, packsFiles, now)
            IN /\ db' = applied.db
               /\ applied.db.activeInstanceId
                    = ExpectedActive(Fetched.payload.activeInstanceId, db.activeInstanceId,
                                     applied.db.instances)]_vars

\* The ids of the instances a remote payload syncs.
SyncedIds(payload) ==
  LET cloudInstances == pickSyncedInstances(payload.instances)
  IN {cloudInstances[i].id : i \in 1..Len(cloudInstances)}

\* C11. After a pull, for every synced instance of the pulled snapshot, the content
\* state persisted locally (mods state and packs state) is the one the remote
\* payload carries for that instance.
C11_PullOverwritesContentState ==
  [][\A p \in Procs :
       Returns(p, "pulled")
         => \A id \in SyncedIds(Fetched.payload) \cap InstIds :
              /\ HasKey(Fetched.payload.modsStateByInstance, id)
              /\ modsFiles'[id].exists
              /\ modsFiles'[id].state = GetKey(Fetched.payload.modsStateByInstance, id)
              /\ HasKey(Fetched.payload.packsStateByInstance, id)
              /\ packsFiles'[id].exists
              /\ packsFiles'[id].state = GetKey(Fetched.payload.packsStateByInstance, id)]_vars

\* A pull has replaced the mods state of instance a by the one another device
\* uploaded for it.
C11_Witness ==
  /\ last.status = "pulled" /\ last.applied
  /\ HasKey(server.payload.modsStateByInstance, "a")
  /\ GetKey(server.payload.modsStateByInstance, "a") = RemoteModsState
  /\ modsFiles["a"].exists
  /\ modsFiles["a"].state = RemoteModsState

\* C13. After a pull no required catalog entry is disabled in the persisted content
\* state of any instance, whatever enabled map the remote payload carries.
C13_RequiredAfterPull ==
  [][\A p \in Procs :
       Returns(p, "pulled")
         => \A id \in InstIds :
              modsFiles'[id].exists
                => \A c \in CatalogIds :
                     CatalogEntry(c).required => modsFiles'[id].state.enabled[c] = TRUE]_vars

\* ------------------------------------------------------- claims on content resolution
RequiredIds == {c \in CatalogIds : CatalogEntry(c).required}

\* C12. Starting from the default state, after every setModEnabled call and every
\* refresh (full or targeted), every required catalog entry is enabled in the
\* persisted state, whatever value the call asked for.
C12_RequiredStaysEnabled ==
  \A c \in RequiredIds : Persisted.enabled[c] = TRUE

\* A call asked to disable a required entry and the state it stored has it enabled.
C12_Witness ==
  /\ lastOp.op = "setEnabled" /\ lastOp.modId = "fabric-api" /\ lastOp.requested = FALSE
  /\ modsFiles[ModsInstance].exists
  /\ modsFiles[ModsInstance].state.enabled["fabric-api"] = TRUE

\* A refresh has returned and nothing has run since.
AfterRefresh == rf.pc = "idle" /\ lastOp.op = "refresh"

\* The installed files whose name carries the prefix of a catalog id.
FilesOf(files, catalogId) == {f \in files : StartsWithPrefix(f.name, catalogId)}

\* C14. After any refresh the mods directory holds at most one file whose name
\* carries the prefix <catalogId>__, for every catalog id.
C14_AtMostOneFile ==
  AfterRefresh => \A c \in CatalogIds : Cardinality(FilesOf(dir, c)) <= 1

\* The catalog ids the last refresh resolved itself.
Targeted(op) ==
  IF targetSet(op.hasTarget, op.targetCatalogIds).null THEN CatalogIds
  ELSE targetSet(op.hasTarget, op.targetCatalogIds).ids \cap CatalogIds

\* The bytes match every hash the record holds, and it holds one.
HashesMatch(record, bytes) ==
  /\ record.sha1 # NoSha \/ record.sha512 # NoSha
  /\ record.sha1 # NoSha => sha1Of(bytes) = record.sha1
  /\ record.sha512 # NoSha => sha512Of(bytes) = record.sha512

\* C15. For every entry a refresh records with status ok, the installed file exists
\* and its bytes hash to the hashes of the resolved record, whether they were
\* downloaded or found in the cache and also when the provider listed no sha1.
C15_InstalledBytesVerified ==
  AfterRefresh =>
    \A c \in Targeted(lastOp) :
      HasKey(Persisted.resolved, c) /\ GetKey(Persisted.resolved, c).status = "ok"
        => LET record == GetKey(Persisted.resolved, c)
           IN /\ HasFile(dir, record.fileName)
              /\ HashesMatch(record, FileBytes(dir, record.fileName))

\* A mods state without the resolution timestamps of its records.
StripTime(state) ==
  [state EXCEPT !.resolved = [i \in 1..Len(state.resolved) |->
                                [k |-> state.resolved[i].k,
                                 v |-> [state.resolved[i].v EXCEPT !.lastCheckedAt = 0]]]]

\* The mods state the last operation found.
StateBefore == IF lastOp.before.file.exists THEN lastOp.before.file.state ELSE defaultState

\* A refresh has returned that followed a refresh with the same arguments directly:
\* no other operation in between, and the provider answered both calls alike.
SecondRefresh ==
  /\ AfterRefresh
  /\ lastOp.prevOp = "refresh"
  /\ lastOp.prevHasTarget = lastOp.hasTarget
  /\ lastOp.prevTarget = lastOp.targetCatalogIds
  /\ lastOp.prevAnswers = lastOp.answers

\* What a second refresh leaves as the first one left it.
SameAsFirst ==
  /\ StripTime(Persisted) = StripTime(StateBefore)
  /\ dir = lastOp.before.dir
  /\ cache = lastOp.before.cache

\* C16 as stated. A second refresh right after a first one leaves the mods state
\* (apart from the timestamps), the installed files and the cache files as the
\* first one left them, and downloads nothing.
C16_SecondRefreshNoDownload ==
  SecondRefresh => SameAsFirst /\ lastOp.downloads = {}

\* C16. A second refresh right after a first one leaves the mods state (apart from
\* the timestamps), the installed files and the cache files as the first one left
\* them, and downloads no artifact that has a cache file: what it downloads are the
\* artifacts the first refresh could not cache.
C16_SecondRefreshIdempotent ==
  SecondRefresh => SameAsFirst /\ \A name \in lastOp.downloads : ~HasFile(lastOp.before.cache, name)

\* A second full refresh has returned with the files of two catalog entries
\* installed from the cache and nothing downloaded.
C16_Witness ==
  /\ SecondRefresh
  /\ targetSet(lastOp.hasTarget, lastOp.targetCatalogIds).null
  /\ lastOp.downloads = {}
  /\ \E f \in dir : StartsWithPrefix(f.name, "fabric-api")
  /\ \E f \in dir : StartsWithPrefix(f.name, "sodium")
  /\ cache # {}

\* A setModEnabled(id, true) call on an entry with an ok record has returned.
EnabledOk ==
  /\ lastOp.op = "setEnabled" /\ lastOp.requested /\ lastOp.modId \in CatalogIds
  /\ HasKey(StateBefore.resolved, lastOp.modId)
  /\ GetKey(StateBefore.resolved, lastOp.modId).status = "ok"

\* The cache file setModEnabled looks for, and whether it is there.
CachedFor(record) == cacheName(FALSE, record.catalogId, record.sha1, NoUpName)
CachePresent(record, cached) == record.sha1 # NoSha /\ HasFile(cached, CachedFor(record))

\* C17. setModEnabled(id, true) on an entry with an ok record: with the cache file
\* present the cached bytes end up installed under the enabled name; with the cache
\* file absent and a file with the id's prefix installed, the entry still has an
\* installed file; with neither the directory is unchanged. Enabling never leaves
\* the entry with fewer installed files than before.
C17_EnableKeepsFile ==
  EnabledOk =>
    LET record == GetKey(StateBefore.resolved, lastOp.modId)
        target == targetFileName(lastOp.modId, record.upstreamFileName, TRUE)
        was == FilesOf(lastOp.before.dir, lastOp.modId)
    IN /\ CachePresent(record, lastOp.before.cache)
            => /\ HasFile(dir, target)
               /\ FileBytes(dir, target) = FileBytes(lastOp.before.cache, CachedFor(record))
       /\ ~CachePresent(record, lastOp.before.cache) /\ was # {}
            => FilesOf(dir, lastOp.modId) # {}
       /\ ~CachePresent(record, lastOp.before.cache) /\ was = {}
            => dir = lastOp.before.dir
       /\ Cardinality(FilesOf(dir, lastOp.modId)) >= Cardinality(was)

\* The record of a catalog id in a mods state, or the null record.
RecordOf(state, catalogId) ==
  IF HasKey(state.resolved, catalogId) THEN GetKey(state.resolved, catalogId) ELSE NoResolved

\* Every entry outside the list keeps its record and its installed files.
OutsideUntouched(ids) ==
  \A c \in CatalogIds \ ids :
    /\ RecordOf(Persisted, c) = RecordOf(StateBefore, c)
    /\ FilesOf(dir, c) = FilesOf(lastOp.before.dir, c)

\* C18 as stated. A refresh that was given a target list leaves every catalog entry
\* outside the list untouched: its record and the installed files with its prefix.
C18_TargetSupplied ==
  AfterRefresh /\ lastOp.hasTarget => OutsideUntouched(Range(lastOp.targetCatalogIds))

\* C18. A refresh that was given a target list with at least one id leaves every
\* catalog entry outside the list untouched.
C18_TargetNonEmpty ==
  AfterRefresh /\ lastOp.hasTarget /\ Len(lastOp.targetCatalogIds) > 0
    => OutsideUntouched(Range(lastOp.targetCatalogIds))

\* A refresh targeted at sodium has returned, after it resolved sodium anew, with
\* fabric-api holding an ok record and its installed file from before the call.
C18_Witness ==
  /\ AfterRefresh /\ lastOp.hasTarget /\ lastOp.targetCatalogIds = << "sodium" >>
  /\ RecordOf(StateBefore, "fabric-api").status = "ok"
  /\ FilesOf(lastOp.before.dir, "fabric-api") # {}
  /\ RecordOf(Persisted, "sodium").status = "ok"
  /\ RecordOf(Persisted, "sodium").lastCheckedAt > RecordOf(Persisted, "fabric-api").lastCheckedAt

\* The error the provider made the catalog loop run into for an entry, as a message,
\* from the answer the call got; NullStr when the entry is not enabled or the
\* provider did not fail for it.
FailureOf(c, cached) ==
  LET r == answerOf(lastOp.answers, CatalogEntry(c).projectId)
      enabled == CatalogEntry(c).required \/ StateBefore.enabled[c]
  IN IF ~enabled THEN NullStr
     ELSE IF r.kind = "throws" THEN ResolveFailed
     ELSE IF r.kind # "ok" \/ HasFile(cached, cacheName(FALSE, c, r.sha1, r.fileName)) THEN NullStr
     ELSE IF r.served.fails THEN DownloadFailed
     ELSE IF r.sha1 # NoSha /\ sha1Of(r.served.body) # r.sha1 THEN "SHA1 mismatch for " \o c
     ELSE NullStr

\* C19. A provider failure for one entry (lookup throws, download throws, hash
\* mismatch) does not abort the refresh: the call returns, the failing entry has
\* status error with the error's message and no installed file, and every targeted
\* entry has a record of this call.
C19_ErrorIsolated ==
  AfterRefresh =>
    \A c \in Targeted(lastOp) :
      /\ RecordOf(Persisted, c).lastCheckedAt = now
      /\ FailureOf(c, lastOp.before.cache) # NullStr
           => /\ RecordOf(Persisted, c).status = "error"
              /\ RecordOf(Persisted, c).error = FailureOf(c, lastOp.before.cache)
              /\ FilesOf(dir, c) = {}

\* C21. Every persisted record with status ok names a file that exists in the mods
\* directory of its instance, or existed there when the record was written: a step
\* that stores a new ok record for an entry leaves the named file in the directory.
C21_OkRecordNamesFile ==
  [][\A c \in CatalogIds :
       /\ RecordOf(Persisted', c).status = "ok"
       /\ RecordOf(Persisted', c) # RecordOf(Persisted, c)
       => HasFile(dir', RecordOf(Persisted', c).fileName)]_vars

\* A planModRefreshForInstance call has returned and nothing has run since.
AfterPlan == rf.pc = "idle" /\ lastOp.op = "plan"

\* C22. planModRefreshForInstance is read-only: the state file, the installed files
\* and the cache are after the call what they were before it, whatever is stored
\* and whatever the provider answers, lookups that throw included.
C22_PlanReadOnly ==
  AfterPlan => Snapshot = lastOp.before

\* A plan was made over a stored state, installed files and cache files, and it
\* lists an update and a blocked entry.
C22_Witness ==
  /\ AfterPlan
  /\ lastOp.plan.blocked # << >>
  /\ lastOp.plan.updates # << >>
  /\ lastOp.before.file.exists
  /\ lastOp.before.dir # {}
  /\ lastOp.before.cache # {}

\* Whether the plan's inputs call for caution on an entry: the stored record is
\* missing or not ok, the first number of the latest version name is greater than
\* that of the stored one, or the sets of required projects differ.
CautionCalledFor(catalogId) ==
  LET latest == answerOf(lastOp.answers, CatalogEntry(catalogId).projectId)
      stored == RecordOf(StateBefore, catalogId)
  IN \/ ~HasKey(StateBefore.resolved, catalogId)
     \/ stored.status # "ok"
     \/ /\ parseMajor(stored.versionName) # NullNum
        /\ parseMajor(latest.versionName) # NullNum
        /\ parseMajor(latest.versionName) > parseMajor(stored.versionName)
     \/ Range(stored.requiredProjectIds) # Range(RequiredOf(latest))

\* C25. Every update of a plan has severity safe or caution, never breaking, and
\* counts.breaking is 0; the severity is caution exactly when the stored record is
\* missing or not ok, or the major version grew, or the dependency set differs.
C25_SeverityClassification ==
  AfterPlan =>
    /\ lastOp.plan.counts.breaking = 0
    /\ \A i \in 1..Len(lastOp.plan.updates) :
         LET u == lastOp.plan.updates[i]
         IN /\ u.severity \in {"safe", "caution"}
            /\ u.severity = "caution" <=> CautionCalledFor(u.id)

\* A plan lists an update of a cleanly resolved entry to the next major version.
C25_Witness ==
  /\ AfterPlan
  /\ \E i \in 1..Len(lastOp.plan.updates) :
       /\ lastOp.plan.updates[i].id = "fabric-api"
       /\ lastOp.plan.updates[i].severity = "caution"
       /\ lastOp.plan.updates[i].fromVersion = Dotted(0, 92, 0)
       /\ lastOp.plan.updates[i].toVersion = Dotted(1, 0, 0)
       /\ lastOp.plan.updates[i].reason = "Major version bump (0 -> 1)"
  /\ RecordOf(StateBefore, "fabric-api").status = "ok"

\* A refresh has returned during which a setModEnabled call ran.
AfterOverlap == AfterRefresh /\ lastOp.overlap.happened

\* C23. When a setModEnabled call runs to completion while a refresh of the same
\* instance is suspended, nothing is merged: the persisted state after the refresh
\* is the state the refresh loaded at its start with the records it built, so the
\* enabled map the overlapping call saved is overwritten.
C23_LastWriterWins ==
  AfterOverlap =>
    /\ modsFiles[ModsInstance].exists
    /\ Persisted = [StateBefore EXCEPT !.resolved = Persisted.resolved]
    /\ \A c \in Targeted(lastOp) : RecordOf(Persisted, c).lastCheckedAt = now

\* The overlapping call saved sodium as enabled and the refresh's save put the
\* enabled map of its start back.
C23_Witness ==
  /\ AfterOverlap
  /\ lastOp.overlap.modId = "sodium" /\ lastOp.overlap.requested
  /\ lastOp.overlap.saved.enabled["sodium"] = TRUE
  /\ Persisted.enabled["sodium"] = FALSE

\* ------------------------------------------------------- claims on repeated and overlapping calls
\* Caller p's GET answers in this step, the previous call ended pushed, pulled or
\* up-to-date, and since that call began no local edit was made and since its GET
\* answered the endpoint has not changed.
QuietSecondAttempt(p) ==
  /\ GetAnswers(p)
  /\ calls = 2
  /\ last.status \in {"pushed", "pulled", "up-to-date"}
  /\ ~att[p].editedBefore /\ ~edited
  /\ ~att[p].moved /\ ~moved

\* C26. Sync quiescence: a call that follows a call that ended pushed, pulled or
\* up-to-date, with no local edit and no remote change in between, returns
\* up-to-date and sends no PUT.
C26_Quiescence ==
  [][\A p \in Procs :
       QuietSecondAttempt(p) => Returns(p, "up-to-date") /\ ~last'.putIssued]_vars

\* The ids of a list of instances are pairwise distinct.
DistinctIds(instances) ==
  \A i, j \in 1..Len(instances) : instances[i].id = instances[j].id => i = j

\* C28. After a pull the merged instance list has no two instances with the same
\* id, when the local ids are pairwise distinct and the remote ids are pairwise
\* distinct.
C28_MergedIdsDistinct ==
  [][\A p \in Procs :
       (Returns(p, "pulled") /\ DistinctIds(db.instances) /\ DistinctIds(Fetched.payload.instances))
         => DistinctIds(db'.instances)]_vars

\* ------------------------------------------------------- claims on the cache key
\* The cache file the refresh loop writes for a record it stores with status ok.
RefreshCacheFor(record) ==
  cacheName(FALSE, record.catalogId, record.sha1, record.upstreamFileName)

\* C29. For every record a refresh writes with status ok, the cache file
\* setModEnabled looks up is the cache file the refresh wrote, with and without a
\* sha1 from the provider; and setModEnabled(id, true) right after a refresh leaves
\* the file of an entry with an ok record installed.
C29_CacheKeyAgreement ==
  /\ AfterRefresh
       => \A c \in Targeted(lastOp) :
            RecordOf(Persisted, c).status = "ok"
              => /\ HasFile(cache, RefreshCacheFor(RecordOf(Persisted, c)))
                 /\ CachePresent(RecordOf(Persisted, c), cache)
                 /\ CachedFor(RecordOf(Persisted, c)) = RefreshCacheFor(RecordOf(Persisted, c))
  /\ EnabledOk /\ lastOp.prevOp = "refresh"
       => HasFile(dir, targetFileName(lastOp.modId,
                                      RecordOf(StateBefore, lastOp.modId).upstreamFileName, TRUE))

\* ------------------------------------------------------- claims on applyOptimizer
\* An applyOptimizer call has ended, by a throw or at its closing refresh, and no
\* other call has run since its last step.
AfterOptimizer == lastOp.op = "optimize" /\ opt.pc = "idle"

\* C30. applyOptimizer on an existing instance runs to completion for every
\* profile: no setModEnabled call fails on an id outside the catalog, the closing
\* refresh is reached, and a call that fails leaves the memory/JVM settings as they
\* were.
C30_OptimizerCompletes ==
  AfterOptimizer =>
    /\ opt.found => opt.error = NullStr /\ opt.refreshReached
    /\ opt.error # NullStr => opt.config = opt.before

\* ------------------------------------------------------- claims on overlapping sync calls
\* The baseline a sync state records.
Baseline(state) == << state.lastRemoteRevision, state.lastSnapshotHash, state.lastSyncedAt >>

\* Caller q returns in this step, and while it was suspended another call succeeded
\* and recorded a baseline other than the one q read at entry.
ReturnsAfterOtherSucceeded(q) ==
  /\ att[q].pc # "idle" /\ att'[q].pc = "idle"
  /\ metaFile.exists
  /\ metaFile.state.lastStatus \in {"pushed", "pulled", "up-to-date"}
  /\ Baseline(metaFile.state) # Baseline(att[q].meta)

\* C27. When two calls overlap, the baseline recorded by the call that succeeded
\* (lastRemoteRevision, lastSnapshotHash, lastSyncedAt) is not put back to the values
\* the other call read at entry by that call's closing write of the sync state.
C27_BaselineNotReverted ==
  [][\A q \in Procs :
       ReturnsAfterOtherSucceeded(q) => Baseline(metaFile'.state) # Baseline(att[q].meta)]_vars

====
